---------------------------- MODULE Spec2Model ----------------------------
(***************************************************************************)
(* Model of the pricing core of the RDC's Landscape pricing platform:      *)
(* backend/src/services/pricingEngine.ts, with the helpers it imports from *)
(* aiVision.ts and propertyLookup.ts, and the upsell engine                *)
(* backend/src/services/upsellEngine.ts (generateUpsells,                  *)
(* generateMaterialsList and generateJobDescription), the POST /quote      *)
(* handler of routes/pricing.routes.ts and createAndSendQuote of the       *)
(* Jobber client.                                                          *)
(*                                                                         *)
(* Specifications.  Spec is the whole system on the seed data with storage *)
(* updates; SpecTiers, SpecUpsells and SpecMaterials explore one function  *)
(* each over grids of properties and catalogs; SpecHelpers applies the     *)
(* helper functions on their own; SpecQuote is POST /quote under storage   *)
(* updates; SpecRepeat asks calculateAllTiers again after other requests;  *)
(* SpecJobber sends a stored quote to Jobber.                              *)
(*                                                                         *)
(* Numbers.  The code computes in IEEE doubles; the model computes in      *)
(* exact rationals <<numerator, denominator>> (denominator > 0, lowest     *)
(* terms), so Math.round is floor(x + 1/2) on the exact value.  NaN is     *)
(* the pair <<0, 0>>.  Database DECIMAL(n, 2) columns are integers in      *)
(* hundredths until parseFloat turns them into numbers.                    *)
(*                                                                         *)
(* Geometry.  The Haversine arithmetic is not modelled: a property's       *)
(* lat/lng is represented by the field latlng, the unrounded great-circle  *)
(* distance of the coordinates from the service-area centre in hundredths  *)
(* of a mile.  The rounding calculateDistanceFromServiceCenter applies to  *)
(* that distance is modelled.                                              *)
(*                                                                         *)
(* Optional fields.  A Property is a function whose DOMAIN holds exactly   *)
(* the fields that are present; an absent field is undefined in the code.  *)
(***************************************************************************)
EXTENDS Integers, Sequences, FiniteSets, TLC

VARIABLES
    rate_cards,            \* table rate_cards: service_code -> row
    regional_adjustments,  \* table regional_adjustments: zip_code -> row
    adminOps,              \* storage updates made so far
    pc,                    \* position of the request being served
    op,                    \* entry point of the request
    property,              \* the request's Property
    tierArg,               \* the tier argument of calculatePricing
    rateCardMap,           \* calculateAllTiers: rateCardMap (after loadRateCards)
    regionalMultiplier,    \* calculateAllTiers: regionalMultiplier
    allTiers,              \* what calculateAllTiers returned (<<>> before, or on a throw)
    pricing,               \* what calculatePricing returned (<<>> before, or on a throw)
    error,                 \* the error thrown to the caller, "none" if none
    serviceType,           \* the serviceType argument of the upsell engine's functions
    selectedUpsells,       \* generateMaterialsList: selectedUpsells (service codes)
    upsells,               \* what generateUpsells returned (<<>> before)
    materials,             \* what generateMaterialsList returned (<<>> before)
    jobDescription,        \* what generateJobDescription returned (<<>> before)
    call,                  \* a helper function applied on its own: name and arguments
    result,                \* what that helper returned
    quote,                 \* the row of table quotes the request works on (<<>>: none)
    customer,              \* the quote's row of table customers
    jobber,                \* createAndSendQuote: jobberClientId, quoteId, and what Jobber sent
    jobber_sync_log        \* table jobber_sync_log: the rows inserted, in order

\* The upsell engine's part of a request.
upsellVars == <<serviceType, selectedUpsells, upsells, materials, jobDescription>>

\* A helper applied on its own.
helperVars == <<call, result>>

\* The stored quote and its way to Jobber.
jobberVars == <<quote, customer, jobber, jobber_sync_log>>

vars == <<rate_cards, regional_adjustments, adminOps, pc, op, property, tierArg,
          rateCardMap, regionalMultiplier, allTiers, pricing, error,
          serviceType, selectedUpsells, upsells, materials, jobDescription,
          call, result, quote, customer, jobber, jobber_sync_log>>

--------------------------------------------------------------------------
(* Exact rational arithmetic standing for the code's number arithmetic.    *)

Abs(n) == IF n < 0 THEN -n ELSE n

RECURSIVE GCD(_, _)
GCD(a, b) == IF b = 0 THEN a ELSE GCD(b, a % b)

NaN == <<0, 0>>

IsNaN(x) == x[2] = 0

\* n / d in lowest terms (d > 0).
Rat(n, d) ==
    IF n = 0 THEN <<0, 1>>
    ELSE LET g == GCD(Abs(n), d) IN <<n \div g, d \div g>>

Whole(n) == <<n, 1>>

\* a * b
RMul(a, b) ==
    IF IsNaN(a) \/ IsNaN(b) THEN NaN
    ELSE IF a[1] = 0 \/ b[1] = 0 THEN <<0, 1>>
    ELSE LET g1 == GCD(Abs(a[1]), b[2])
             g2 == GCD(Abs(b[1]), a[2])
         IN  <<(a[1] \div g1) * (b[1] \div g2), (a[2] \div g2) * (b[2] \div g1)>>

\* a + b
RAdd(a, b) ==
    IF IsNaN(a) \/ IsNaN(b) THEN NaN
    ELSE LET g == GCD(a[2], b[2])
             l == (a[2] \div g) * b[2]
         IN  Rat(a[1] * (l \div a[2]) + b[1] * (l \div b[2]), l)

\* a / n for an integer n > 0
RDivInt(a, n) == RMul(a, Rat(1, n))

\* a <= b; false when either is NaN, as every comparison with NaN is
RLeq(a, b) ==
    /\ ~IsNaN(a)
    /\ ~IsNaN(b)
    /\ LET g == GCD(a[2], b[2])
       IN  a[1] * (b[2] \div g) <= b[1] * (a[2] \div g)

\* a < b; false when either is NaN
RLt(a, b) == ~IsNaN(a) /\ ~IsNaN(b) /\ ~RLeq(b, a)

\* Math.round(x): the integer nearest x, halves towards +infinity.
MathRound(x) ==
    LET q == x[1] \div x[2]
        r == x[1] % x[2]
    IN  q + (IF 2 * r >= x[2] THEN 1 ELSE 0)

\* Math.ceil(x): the least integer >= x
MathCeil(x) == -((-x[1]) \div x[2])

\* Math.ceil(x * 2) / 2: x rounded up to a multiple of one half
CeilToHalf(x) == Rat(MathCeil(RMul(x, Whole(2))), 2)

\* Math.round(Math.sqrt(x)) for x = n / d >= 0: the integer k with
\* k - 1/2 <= sqrt(x) < k + 1/2, that is (2k - 1)^2 d <= 4n < (2k + 1)^2 d
RoundSqrt(n, d) ==
    CHOOSE k \in 0 .. (n \div d + 1) :
        /\ 4 * n < (2 * k + 1) * (2 * k + 1) * d
        /\ k > 0 => (2 * k - 1) * (2 * k - 1) * d <= 4 * n

\* Math.round(Math.sqrt(b) * c) for an integer b >= 0 and a number c >= 0
RoundSqrtTimes(b, c) ==
    LET x == RMul(Whole(b), RMul(c, c)) IN RoundSqrt(x[1], x[2])

\* Math.round(x * 100) / 100
RoundTo2(x) == Rat(MathRound(RMul(x, Whole(100))), 100)

\* Math.round(x * 10) / 10
RoundTo1(x) == IF IsNaN(x) THEN NaN ELSE Rat(MathRound(RMul(x, Whole(10))), 10)

\* parseFloat of a DECIMAL(n, 2) column held in hundredths
parseFloat(hundredths) == Rat(hundredths, 100)

\* v || dflt on an optional numeric field: undefined and 0 are falsy
OrElse(p, f, dflt) == IF f \in DOMAIN p /\ p[f] # 0 THEN p[f] ELSE dflt

--------------------------------------------------------------------------
(* Enumerations and program constants.                                     *)

TierServiceCodes == {"MOWING_BASE", "LEAF_CLEANUP", "SEASONAL_PACKAGE", "LIGHTS_INSTALL"}

\* The service codes generateUpsells looks up.
UpsellServiceCodes ==
    {"EDGING", "BUSH_TRIMMING", "MULCH_INSTALL", "BED_MAINTENANCE",
     "LEAF_CLEANUP", "SEASONAL_PACKAGE", "LIGHTS_INSTALL"}

ServiceCodes == TierServiceCodes \cup UpsellServiceCodes

ServiceTypes == {"mowing", "cleanup", "mulch", "softscape", "maintenance"}

TierTypes == {"grass_roots", "premier", "total_landscape"}

\* process.env.SERVICE_AREA_RADIUS_MILES || '25'
SERVICE_AREA_RADIUS_MILES == 25

\* process.env.DEFAULT_REGIONAL_MULTIPLIER || '1.0'
DEFAULT_REGIONAL_MULTIPLIER == Rat(10, 10)

\* The seed rows of rate_cards (base_rate in cents).
SeedRateCards ==
    [c \in ServiceCodes |->
        CASE c = "MOWING_BASE"      -> [base_rate |-> 450,   factor |-> 30, active |-> TRUE]
          [] c = "LEAF_CLEANUP"     -> [base_rate |-> 600,   factor |-> 2,  active |-> TRUE]
          [] c = "LIGHTS_INSTALL"   -> [base_rate |-> 300,   factor |-> 1,  active |-> TRUE]
          [] c = "SEASONAL_PACKAGE" -> [base_rate |-> 65000, factor |-> 1,  active |-> TRUE]
          [] c = "MULCH_INSTALL"    -> [base_rate |-> 9500,  factor |-> 1,  active |-> TRUE]
          [] c = "EDGING"           -> [base_rate |-> 250,   factor |-> 1,  active |-> TRUE]
          [] c = "BUSH_TRIMMING"    -> [base_rate |-> 1500,  factor |-> 1,  active |-> TRUE]
          [] c = "BED_MAINTENANCE"  -> [base_rate |-> 2500,  factor |-> 12, active |-> TRUE]]

\* The seed rows of regional_adjustments (multiplier in hundredths).
SeedRegionalAdjustments ==
    [z \in {"45247", "45242", "45243"} |->
        CASE z = "45247" -> [multiplier |-> 105, active |-> TRUE]
          [] z = "45242" -> [multiplier |-> 95,  active |-> TRUE]
          [] z = "45243" -> [multiplier |-> 100, active |-> TRUE]]

--------------------------------------------------------------------------
(* The multiplier resolver.                                                *)

\* Mutant: a mistyped table entry for score 4.
conditionScoreToMultiplier_typo(score) ==
    CASE score = 1 -> Rat(9, 10)
      [] score = 2 -> Rat(10, 10)
      [] score = 3 -> Rat(11, 10)
      [] score = 4 -> Rat(12, 10)
      [] score = 5 -> Rat(15, 10)
      [] OTHER     -> Rat(10, 10)

\* aiVision.ts conditionScoreToMultiplier: multipliers[score] || 1.0
conditionScoreToMultiplier(score) ==
    CASE score = 1 -> Rat(9, 10)
      [] score = 2 -> Rat(10, 10)
      [] score = 3 -> Rat(11, 10)
      [] score = 4 -> Rat(125, 100)
      [] score = 5 -> Rat(15, 10)
      [] OTHER     -> Rat(10, 10)

\* Mutant: the query without .eq('active', true).
getRegionalMultiplier_anyRecord(adjustments, p) ==
    IF "zipCode" \notin DOMAIN p
    THEN DEFAULT_REGIONAL_MULTIPLIER
    ELSE IF p.zipCode \in DOMAIN adjustments
         THEN parseFloat(adjustments[p.zipCode].multiplier)
         ELSE DEFAULT_REGIONAL_MULTIPLIER

\* Mutant: the multiplier of the quote stored last is reused.
getRegionalMultiplier_lastQuote(adjustments, p) ==
    IF quote # <<>>
    THEN quote.regional_multiplier
    ELSE IF "zipCode" \notin DOMAIN p
         THEN DEFAULT_REGIONAL_MULTIPLIER
         ELSE IF p.zipCode \in DOMAIN adjustments /\ adjustments[p.zipCode].active
              THEN parseFloat(adjustments[p.zipCode].multiplier)
              ELSE DEFAULT_REGIONAL_MULTIPLIER

\* pricingEngine.ts getRegionalMultiplier, reading the table `adjustments`
getRegionalMultiplier(adjustments, p) ==
    IF "zipCode" \notin DOMAIN p
    THEN DEFAULT_REGIONAL_MULTIPLIER
    ELSE IF p.zipCode \in DOMAIN adjustments /\ adjustments[p.zipCode].active
         THEN parseFloat(adjustments[p.zipCode].multiplier)
         ELSE DEFAULT_REGIONAL_MULTIPLIER

\* getRegionalMultiplier when the query itself may fail: `if (error || !data)`
getRegionalMultiplierOrError(adjustments, p, queryError) ==
    IF "zipCode" \notin DOMAIN p THEN DEFAULT_REGIONAL_MULTIPLIER
    ELSE IF queryError THEN DEFAULT_REGIONAL_MULTIPLIER
    ELSE getRegionalMultiplier(adjustments, p)

\* Mutant: the great-circle distance as it is, not rounded.
calculateDistanceFromServiceCenter_unrounded(p) ==
    IF "latlng" \notin DOMAIN p THEN NaN ELSE Rat(p.latlng, 100)

\* propertyLookup.ts calculateDistanceFromServiceCenter(property.lat!, property.lng!):
\* the great-circle distance rounded to one decimal place; NaN without coordinates
calculateDistanceFromServiceCenter(p) ==
    IF "latlng" \notin DOMAIN p THEN NaN ELSE RoundTo1(Rat(p.latlng, 100))

\* Mutant: the bands exclusive of their upper boundaries (< for <=).
calculateDistanceMultiplier_exclusive(distanceMiles) ==
    IF RLt(distanceMiles, Whole(10)) THEN Rat(100, 100)
    ELSE IF RLt(distanceMiles, Whole(20)) THEN Rat(105, 100)
    ELSE IF RLt(distanceMiles, Whole(SERVICE_AREA_RADIUS_MILES)) THEN Rat(110, 100)
    ELSE Rat(120, 100)

\* pricingEngine.ts calculateDistanceMultiplier
calculateDistanceMultiplier(distanceMiles) ==
    IF RLeq(distanceMiles, Whole(10)) THEN Rat(100, 100)
    ELSE IF RLeq(distanceMiles, Whole(20)) THEN Rat(105, 100)
    ELSE IF RLeq(distanceMiles, Whole(SERVICE_AREA_RADIUS_MILES)) THEN Rat(110, 100)
    ELSE Rat(120, 100)

\* property.conditionScore || 3, then the table
complexityMultiplierOf(p) == conditionScoreToMultiplier(OrElse(p, "conditionScore", 3))

\* calculateAllTiers: totalMultiplier
totalMultiplierOf(p, regional) ==
    RMul(RMul(regional, complexityMultiplierOf(p)),
         calculateDistanceMultiplier(calculateDistanceFromServiceCenter(p)))

--------------------------------------------------------------------------
(* The tier pricing calculator.                                            *)

\* pricingEngine.ts loadRateCards: the active rows, mapped to RateCard objects,
\* and calculateAllTiers' rateCardMap keyed by serviceCode
loadRateCards(table) ==
    [c \in {x \in DOMAIN table : table[x].active} |->
        [baseRate |-> parseFloat(table[c].base_rate), factor |-> table[c].factor]]

calculateMowingCost(lawnSqft, rateCard, multiplier) ==
    RoundTo2(RMul(RMul(RMul(Rat(lawnSqft, 1000), rateCard.baseRate),
                       Whole(rateCard.factor)), multiplier))

calculateLeafCleanupCost(lawnSqft, rateCard, multiplier, fullCleanup) ==
    LET cleanups == IF fullCleanup THEN rateCard.factor ELSE 1
    IN  RoundTo2(RMul(RMul(RMul(Rat(lawnSqft, 1000), rateCard.baseRate),
                           Whole(cleanups)), multiplier))

calculateSeasonalPackageCost(rateCard, multiplier) ==
    RoundTo2(RMul(rateCard.baseRate, multiplier))

calculateLightsCost(rooflineFt, rateCard, multiplier) ==
    RoundTo2(RMul(RMul(Whole(rooflineFt), rateCard.baseRate), multiplier))

\* Mutant: the basic cleanup priced as one visit of calculateLeafCleanupCost's two.
basicLeafCostOf_oneVisit(fullLeafCost) == RMul(fullLeafCost, Rat(50, 100))

\* const basicLeafCost = fullLeafCost * 0.25
basicLeafCostOf(fullLeafCost) == RMul(fullLeafCost, Rat(25, 100))

\* Mutant: the package factor applied as a 15% discount.
tier3AnnualOf_discount(tier3Base) == RMul(tier3Base, Rat(85, 100))

\* const tier3Annual = tier3Base * 1.15
tier3AnnualOf(tier3Base) == RMul(tier3Base, Rat(115, 100))

\* Mutant: the markup line is what is left of the rounded total.
premiumMarkupOf_remainder(tier3Base) ==
    MathRound(RMul(tier3Base, Rat(115, 100))) - MathRound(tier3Base)

\* premiumMarkup: Math.round(tier3Base * 0.15)
premiumMarkupOf(tier3Base) == MathRound(RMul(tier3Base, Rat(15, 100)))

\* Mutant: the monthly price taken from the rounded annual price.
monthlyPriceOf_rounded(tierAnnual) == MathRound(Rat(MathRound(tierAnnual), 12))

\* monthlyPrice: Math.round(tierNAnnual / 12), on the unrounded annual amount
monthlyPriceOf(tierAnnual) == MathRound(RDivInt(tierAnnual, 12))

\* Mutant: the fallback lawn size of the materials list used for pricing.
lawnSqftOf_materialsDefault(p) == OrElse(p, "lawnSqft", 5000)

\* const lawnSqft = property.lawnSqft || 0
lawnSqftOf(p) == OrElse(p, "lawnSqft", 0)

\* const rooflineFt = property.rooflineFt || 0
rooflineFtOf(p) == OrElse(p, "rooflineFt", 0)

\* The local constants of calculateAllTiers from line 207 on, given the property,
\* the loaded rate cards and totalMultiplier.  Defined when every tier service
\* code is in the map.
TierCostsWith(p, map, totalMultiplier) ==
    LET lawnSqft     == lawnSqftOf(p)
        rooflineFt   == rooflineFtOf(p)
        mowingCost   == calculateMowingCost(lawnSqft, map["MOWING_BASE"], totalMultiplier)
        fullLeafCost == calculateLeafCleanupCost(lawnSqft, map["LEAF_CLEANUP"],
                                                 totalMultiplier, TRUE)
        basicLeafCost == basicLeafCostOf(fullLeafCost)
        seasonalCost == calculateSeasonalPackageCost(map["SEASONAL_PACKAGE"], totalMultiplier)
        tier2Annual  == RAdd(RAdd(mowingCost, fullLeafCost), seasonalCost)
        lightsCost   == calculateLightsCost(rooflineFt, map["LIGHTS_INSTALL"], totalMultiplier)
        tier3Base    == RAdd(tier2Annual, lightsCost)
    IN  [mowingCost |-> mowingCost, fullLeafCost |-> fullLeafCost,
         basicLeafCost |-> basicLeafCost, seasonalCost |-> seasonalCost,
         lightsCost |-> lightsCost,
         tier1Annual |-> RAdd(mowingCost, basicLeafCost),
         tier2Annual |-> tier2Annual,
         tier3Base |-> tier3Base,
         tier3Annual |-> tier3AnnualOf(tier3Base)]

\* The same with totalMultiplier as calculateAllTiers computes it.
TierCosts(p, map, regional) == TierCostsWith(p, map, totalMultiplierOf(p, regional))

\* The array calculateAllTiers returns.
TierList(c) ==
    << [tier |-> "grass_roots",
        annualPrice |-> MathRound(c.tier1Annual),
        monthlyPrice |-> monthlyPriceOf(c.tier1Annual),
        breakdown |-> [mowing |-> MathRound(c.mowingCost),
                       leafCleanup |-> MathRound(c.basicLeafCost)]],
       [tier |-> "premier",
        annualPrice |-> MathRound(c.tier2Annual),
        monthlyPrice |-> monthlyPriceOf(c.tier2Annual),
        breakdown |-> [mowing |-> MathRound(c.mowingCost),
                       leafCleanup |-> MathRound(c.fullLeafCost),
                       seasonal |-> MathRound(c.seasonalCost)]],
       [tier |-> "total_landscape",
        annualPrice |-> MathRound(c.tier3Annual),
        monthlyPrice |-> monthlyPriceOf(c.tier3Annual),
        breakdown |-> [mowing |-> MathRound(c.mowingCost),
                       leafCleanup |-> MathRound(c.fullLeafCost),
                       seasonal |-> MathRound(c.seasonalCost),
                       lights |-> MathRound(c.lightsCost),
                       premiumMarkup |-> premiumMarkupOf(c.tier3Base)]] >>

\* rateCardMap.get(code)! is undefined for a code that is not in the map; the first
\* cost function that reads .baseRate of it throws a TypeError.
MissingRateCard(map) == \E c \in TierServiceCodes : c \notin DOMAIN map

\* Mutant: the first tier found whatever the tier asked for.
FindTier_firstTier(tiers, tier) == {i \in DOMAIN tiers : i = 1}

\* allTiers.find((t) => t.tier === tier)
FindTier(tiers, tier) == {i \in DOMAIN tiers : tiers[i].tier = tier}

--------------------------------------------------------------------------
(* The upsell engine (upsellEngine.ts) and the estimating helpers of       *)
(* pricingEngine.ts.  An Upsell is modelled by its serviceCode, price and  *)
(* recommended flag; serviceName and description are fixed texts per rule. *)

\* `property.f` is truthy: present and not 0
Truthy(p, f) == f \in DOMAIN p /\ p[f] # 0

\* property.f === v, false for an absent field
Is(p, f, v) == f \in DOMAIN p /\ p[f] = v

\* Mutant: rounded to the nearest half yard (Math.round for Math.ceil).
calculateMulchYardage_nearest(bedSqft, depthInches) ==
    Rat(MathRound(RMul(Rat(bedSqft * depthInches, 324), Whole(2))), 2)

\* pricingEngine.ts calculateMulchYardage(bedSqft, depthInches)
calculateMulchYardage(bedSqft, depthInches) ==
    CeilToHalf(Rat(bedSqft * depthInches, 324))

\* The default of calculateMulchYardage's depthInches parameter
DefaultDepthInches == 3

\* generateUpsells: rateCardMap, the active rows keyed by service_code
upsellRateCardMap(table) ==
    [c \in {x \in DOMAIN table : table[x].active} |-> table[c]]

Upsell(code, price, recommended) ==
    [serviceCode |-> code, price |-> price, recommended |-> recommended]

\* Mutant: one side of the bed for its perimeter (the factor 4 left out).
EdgingUpsell_oneSide(p, map) ==
    IF Truthy(p, "bedSqft") /\ p.bedSqft > 0 /\ ~Is(p, "bedCondition", "good")
          /\ "EDGING" \in DOMAIN map
    THEN <<Upsell("EDGING",
                  RoundSqrtTimes(p.bedSqft, parseFloat(map["EDGING"].base_rate)),
                  TRUE)>>
    ELSE <<>>

\* Rule 1, EDGING
EdgingUpsell(p, map) ==
    IF Truthy(p, "bedSqft") /\ p.bedSqft > 0 /\ ~Is(p, "bedCondition", "good")
          /\ "EDGING" \in DOMAIN map
    THEN <<Upsell("EDGING",
                  RoundSqrtTimes(p.bedSqft,
                                 RMul(Whole(4), parseFloat(map["EDGING"].base_rate))),
                  TRUE)>>
    ELSE <<>>

\* Mutant: bush trimming offered only where the edging card is there as well.
BushTrimmingUpsell_needsEdging(p, map) ==
    IF Truthy(p, "bushCount") /\ p.bushCount > 5 /\ "BUSH_TRIMMING" \in DOMAIN map
          /\ "EDGING" \in DOMAIN map
    THEN <<Upsell("BUSH_TRIMMING",
                  MathRound(RMul(Whole(p.bushCount),
                                 parseFloat(map["BUSH_TRIMMING"].base_rate))),
                  Is(p, "bedCondition", "overgrown"))>>
    ELSE <<>>

\* Rule 2, BUSH_TRIMMING
BushTrimmingUpsell(p, map) ==
    IF Truthy(p, "bushCount") /\ p.bushCount > 5 /\ "BUSH_TRIMMING" \in DOMAIN map
    THEN <<Upsell("BUSH_TRIMMING",
                  MathRound(RMul(Whole(p.bushCount),
                                 parseFloat(map["BUSH_TRIMMING"].base_rate))),
                  Is(p, "bedCondition", "overgrown"))>>
    ELSE <<>>

\* Mutant: the mulch threshold inclusive of 200 sqft (>= for >).
MulchInstallUpsell_inclusive(p, map) ==
    IF Truthy(p, "bedSqft") /\ p.bedSqft >= 200 /\ ~Is(p, "bedCondition", "good")
          /\ "MULCH_INSTALL" \in DOMAIN map
    THEN <<Upsell("MULCH_INSTALL",
                  MathRound(RMul(calculateMulchYardage(p.bedSqft, DefaultDepthInches),
                                 parseFloat(map["MULCH_INSTALL"].base_rate))),
                  Is(p, "bedCondition", "overgrown"))>>
    ELSE <<>>

\* Rule 3, MULCH_INSTALL
MulchInstallUpsell(p, map) ==
    IF Truthy(p, "bedSqft") /\ p.bedSqft > 200 /\ ~Is(p, "bedCondition", "good")
          /\ "MULCH_INSTALL" \in DOMAIN map
    THEN <<Upsell("MULCH_INSTALL",
                  MathRound(RMul(calculateMulchYardage(p.bedSqft, DefaultDepthInches),
                                 parseFloat(map["MULCH_INSTALL"].base_rate))),
                  Is(p, "bedCondition", "overgrown"))>>
    ELSE <<>>

\* Mutant: an absent bedSqft defaulted to 500, as the materials list does.
BedMaintenanceUpsell_defaultBed(p, tier, map) ==
    IF tier \in {"premier", "total_landscape"} /\ "BED_MAINTENANCE" \in DOMAIN map
    THEN <<Upsell("BED_MAINTENANCE",
                  MathRound(RMul(RMul(Rat(OrElse(p, "bedSqft", 500), 100),
                                      parseFloat(map["BED_MAINTENANCE"].base_rate)),
                                 Whole(12))),
                  OrElse(p, "bedSqft", 500) > 500)>>
    ELSE <<>>

\* Rule 4, BED_MAINTENANCE
BedMaintenanceUpsell(p, tier, map) ==
    IF tier \in {"premier", "total_landscape"} /\ "BED_MAINTENANCE" \in DOMAIN map
          /\ Truthy(p, "bedSqft")
    THEN <<Upsell("BED_MAINTENANCE",
                  MathRound(RMul(RMul(Rat(p.bedSqft, 100),
                                      parseFloat(map["BED_MAINTENANCE"].base_rate)),
                                 Whole(12))),
                  p.bedSqft > 500)>>
    ELSE <<>>

\* Mutant: the upgrade priced at the plain leaf rate, without the 1.5 factor.
LeafCleanupUpgradeUpsell_plainRate(p, tier, map) ==
    IF tier = "grass_roots" /\ Is(p, "treeCoverage", "heavy")
          /\ "LEAF_CLEANUP" \in DOMAIN map /\ Truthy(p, "lawnSqft")
    THEN <<Upsell("LEAF_CLEANUP_UPGRADE",
                  MathRound(RMul(Rat(p.lawnSqft, 1000),
                                 parseFloat(map["LEAF_CLEANUP"].base_rate))),
                  TRUE)>>
    ELSE <<>>

\* Rule 5, LEAF_CLEANUP_UPGRADE
LeafCleanupUpgradeUpsell(p, tier, map) ==
    IF tier = "grass_roots" /\ Is(p, "treeCoverage", "heavy")
          /\ "LEAF_CLEANUP" \in DOMAIN map /\ Truthy(p, "lawnSqft")
    THEN <<Upsell("LEAF_CLEANUP_UPGRADE",
                  MathRound(RMul(RMul(Rat(p.lawnSqft, 1000),
                                      parseFloat(map["LEAF_CLEANUP"].base_rate)),
                                 Rat(15, 10))),
                  TRUE)>>
    ELSE <<>>

\* Mutant: a very overgrown lawn recommended as well.
SeasonalPackageUpsell_veryOvergrown(p, tier, map) ==
    IF tier = "grass_roots" /\ "SEASONAL_PACKAGE" \in DOMAIN map
    THEN <<Upsell("SEASONAL_PACKAGE",
                  MathRound(parseFloat(map["SEASONAL_PACKAGE"].base_rate)),
                  Is(p, "grassHeight", "overgrown") \/ Is(p, "grassHeight", "very_overgrown"))>>
    ELSE <<>>

\* Rule 6, SEASONAL_PACKAGE
SeasonalPackageUpsell(p, tier, map) ==
    IF tier = "grass_roots" /\ "SEASONAL_PACKAGE" \in DOMAIN map
    THEN <<Upsell("SEASONAL_PACKAGE",
                  MathRound(parseFloat(map["SEASONAL_PACKAGE"].base_rate)),
                  Is(p, "grassHeight", "overgrown"))>>
    ELSE <<>>

\* Mutant: the lights priced with the complexity multiplier, as in the tiers.
LightsInstallUpsell_scaled(p, tier, map) ==
    IF tier # "total_landscape" /\ Truthy(p, "rooflineFt")
          /\ "LIGHTS_INSTALL" \in DOMAIN map
    THEN <<Upsell("LIGHTS_INSTALL",
                  MathRound(RMul(RMul(Whole(p.rooflineFt),
                                      parseFloat(map["LIGHTS_INSTALL"].base_rate)),
                                 complexityMultiplierOf(p))),
                  FALSE)>>
    ELSE <<>>

\* Rule 7, LIGHTS_INSTALL
LightsInstallUpsell(p, tier, map) ==
    IF tier # "total_landscape" /\ Truthy(p, "rooflineFt")
          /\ "LIGHTS_INSTALL" \in DOMAIN map
    THEN <<Upsell("LIGHTS_INSTALL",
                  MathRound(RMul(Whole(p.rooflineFt),
                                 parseFloat(map["LIGHTS_INSTALL"].base_rate))),
                  FALSE)>>
    ELSE <<>>

\* Mutant: the rules chained, mulch installation taking the place of edging.
generateUpsells_chained(p, tier, table) ==
    LET map == upsellRateCardMap(table)
    IN  (IF MulchInstallUpsell(p, map) = <<>> THEN EdgingUpsell(p, map) ELSE <<>>)
          \o BushTrimmingUpsell(p, map) \o MulchInstallUpsell(p, map)
          \o BedMaintenanceUpsell(p, tier, map) \o LeafCleanupUpgradeUpsell(p, tier, map)
          \o SeasonalPackageUpsell(p, tier, map) \o LightsInstallUpsell(p, tier, map)

\* upsellEngine.ts generateUpsells, with the rate cards it loaded
generateUpsells(p, tier, table) ==
    LET map == upsellRateCardMap(table)
    IN  EdgingUpsell(p, map) \o BushTrimmingUpsell(p, map) \o MulchInstallUpsell(p, map)
          \o BedMaintenanceUpsell(p, tier, map) \o LeafCleanupUpgradeUpsell(p, tier, map)
          \o SeasonalPackageUpsell(p, tier, map) \o LightsInstallUpsell(p, tier, map)

MaterialItem(item, quantity, unit) ==
    [item |-> item, quantity |-> quantity, unit |-> unit]

\* Mutant: the thousands of square feet rounded down (Math.floor for Math.ceil).
leafBagsOf_roundedDown(p) == OrElse(p, "lawnSqft", 5000) \div 1000

\* generateMaterialsList: the cleanup service's leaf bags
leafBagsOf(p) == MathCeil(Rat(OrElse(p, "lawnSqft", 5000), 1000))

\* upsellEngine.ts generateMaterialsList
generateMaterialsList(p, service, selected) ==
    (IF service = "mowing"
     THEN <<MaterialItem("Premium Gasoline", Whole(5), "gallons"),
            MaterialItem("Trimmer Line", Whole(1), "spool"),
            MaterialItem("Mower Blades (replacement)", Whole(2), "blades")>>
     ELSE <<>>)
    \o (IF service = "cleanup"
        THEN <<MaterialItem("Heavy-duty Leaf Bags", Whole(leafBagsOf(p) * 10), "bags"),
               MaterialItem("Debris Tarps", Whole(2), "tarps")>>
        ELSE <<>>)
    \o (IF service = "mulch" \/ "MULCH_INSTALL" \in selected
        THEN <<MaterialItem("Premium Hardwood Mulch",
                            calculateMulchYardage(OrElse(p, "bedSqft", 500),
                                                  DefaultDepthInches),
                            "cubic yards"),
               MaterialItem("Landscape Fabric (optional)", Whole(1), "roll"),
               MaterialItem("Bed Edging Material", Whole(50), "linear feet")>>
        ELSE <<>>)
    \o (IF "BUSH_TRIMMING" \in selected
        THEN <<MaterialItem("Hedge Trimmer Fuel Mix", Whole(2), "quarts")>>
        ELSE <<>>)
    \o (IF "SEASONAL_PACKAGE" \in selected
        THEN <<MaterialItem("Lawn Fertilizer (22-0-10)", Whole(4), "bags"),
               MaterialItem("Core Aeration (equipment rental)", Whole(1), "day")>>
        ELSE <<>>)
    \o (IF "LIGHTS_INSTALL" \in selected
        THEN LET rooflineFt == OrElse(p, "rooflineFt", 100)
             IN  <<MaterialItem("LED Christmas Lights",
                                Whole(MathCeil(Rat(rooflineFt, 25))), "strands (25ft)"),
                   MaterialItem("Light Clips", Whole(rooflineFt), "clips"),
                   MaterialItem("Extension Cords", Whole(3), "cords"),
                   MaterialItem("Outdoor Timers", Whole(2), "timers")>>
        ELSE <<>>)

\* estimateLaborHours: baseHours[serviceType], undefined (NaN here) for a string
\* that is no service type
baseHoursOf(service, lawnSqft) ==
    CASE service = "mowing"      -> Rat(lawnSqft, 5000)
      [] service = "cleanup"     -> Rat(lawnSqft, 2000)
      [] service = "mulch"       -> Rat(lawnSqft, 1000)
      [] service = "softscape"   -> Rat(lawnSqft, 500)
      [] service = "maintenance" -> Rat(lawnSqft, 3000)
      [] OTHER                   -> NaN

\* pricingEngine.ts estimateLaborHours(serviceType, lawnSqft, complexityScore)
estimateLaborHours(service, lawnSqft, complexityScore) ==
    LET b == baseHoursOf(service, lawnSqft)
        base == IF IsNaN(b) \/ b[1] = 0 THEN Whole(2) ELSE b
        complexityFactor == Rat(complexityScore, 3)
        hours == RMul(base, complexityFactor)
    IN  CeilToHalf(hours)

\* Mutant: the premier tiers' seasonal care package left out of the text.
serviceLinesOf_noSeasonal(tier) ==
    CASE tier = "grass_roots" ->
           <<"30 weekly mowing visits", "Basic fall leaf cleanup (1 visit)">>
      [] tier = "premier" ->
           <<"30 weekly mowing visits", "Full fall leaf cleanup (2 visits)">>
      [] tier = "total_landscape" ->
           <<"30 weekly mowing visits", "Full fall leaf cleanup (2 visits)",
             "Holiday lights installation and removal">>
      [] OTHER -> <<>>

\* generateJobDescription: the lines under "Services Included:" of a tier
serviceLinesOf(tier) ==
    CASE tier = "grass_roots" ->
           <<"30 weekly mowing visits", "Basic fall leaf cleanup (1 visit)">>
      [] tier = "premier" ->
           <<"30 weekly mowing visits", "Full fall leaf cleanup (2 visits)",
             "Seasonal care package">>
      [] tier = "total_landscape" ->
           <<"30 weekly mowing visits", "Full fall leaf cleanup (2 visits)",
             "Seasonal care package", "Holiday lights installation and removal">>
      [] OTHER -> <<>>

\* generateJobDescription: property.conditionScore && property.conditionScore >= 4
conditionNoteOf(p) == Truthy(p, "conditionScore") /\ p.conditionScore >= 4

\* generateJobDescription: the text it returns, by its parts.  An upsell's
\* serviceName is stood for by its serviceCode (the seven names are distinct).
generateJobDescription(p, service, tier, selected) ==
    [title      |-> <<tier, service>>,
     details    |-> <<"Address", "Lawn Area">>
                      \o (IF Truthy(p, "bedSqft") THEN <<"Landscape Beds">> ELSE <<>>)
                      \o (IF Truthy(p, "bushCount") THEN <<"Bushes/Shrubs">> ELSE <<>>),
     services   |-> serviceLinesOf(tier),
     additional |-> [i \in DOMAIN selected |-> selected[i].serviceCode],
     note       |-> conditionNoteOf(p)]

\* Mutant: every upsell passed on, recommended or not.
recommendedOf_all(list) == list

\* POST /quote: upsells.filter((u) => u.recommended)
recommendedOf(list) == SelectSeq(list, LAMBDA u : u.recommended)

--------------------------------------------------------------------------
(* Inputs.                                                                 *)

\* Storage updates per behaviour.
MaxAdminOps == 1

\* Lawn sizes of 0..MaxLawnUnits quarter-thousands of square feet are enumerated
\* beside the typical ones.
MaxLawnUnits == 3

Field(f, vals) == {[x \in {f} |-> v] : v \in vals}

\* An optional field: present with one of vals, or absent.
OptField(f, vals) == Field(f, vals) \cup {<<>>}

\* The end-to-end scenario of the documentation: 10,000 sqft of lawn, 150 ft of
\* roofline, condition 4, the +5% ZIP code, 8 miles out.
BaseProperty ==
    [lawnSqft |-> 10000, rooflineFt |-> 150, conditionScore |-> 4,
     zipCode |-> "45247", latlng |-> 800]

Without(p, f) == [x \in DOMAIN p \ {f} |-> p[x]]

\* The base property with one field changed or removed.
Vary(f, vals) == {[BaseProperty EXCEPT ![f] = v] : v \in vals} \cup {Without(BaseProperty, f)}

\* Properties of the full system: one field at a time off the base property,
\* invalid values included.
CoreProperties ==
    Vary("lawnSqft", {0, 250, -1000})
        \cup Vary("rooflineFt", {0, -10})
        \cup Vary("conditionScore", -1 .. 7)
        \cup Vary("zipCode", {"45242", "45299"})
        \cup Vary("latlng", {0, 1000, 1001, 1004, 1005, 2000, 2001, 2004, 2005,
                             2500, 2501, 2504, 2505})

\* Properties over which the tier arithmetic is explored (one lawn size is negative).
TierProperties ==
    {a @@ b @@ c @@ d @@ e :
        a \in OptField("lawnSqft", {250 * k : k \in 0 .. MaxLawnUnits}
                                        \cup {2500, 10000, -1000}),
        b \in OptField("rooflineFt", {0, 1, 150}),
        c \in OptField("conditionScore", 1 .. 5),
        d \in OptField("zipCode", {"45247", "45242"}),
        e \in Field("latlng", {800, 1500, 2200, 3000})}

\* Rate catalogs over which the tier arithmetic is explored: the seed rates, the
\* documented rate change of MOWING_BASE to 5.00, and zero rates.
TierCatalogs ==
    {[SeedRateCards EXCEPT !["MOWING_BASE"].base_rate = m,
                           !["SEASONAL_PACKAGE"].base_rate = s] :
        m \in {450, 500}, s \in {65000, 0}}

\* Bush counts 0..MaxBushCount are enumerated.
MaxBushCount == 8

\* The upsell scenario of the documentation (600 sqft of overgrown beds, 8
\* bushes) on the base lot, under heavy tree cover.
UpsellBase ==
    [lawnSqft |-> 10000, rooflineFt |-> 150, bedSqft |-> 600,
     bedCondition |-> "overgrown", bushCount |-> 8,
     treeCoverage |-> "heavy", grassHeight |-> "normal"]

Only(p, fields) == [x \in DOMAIN p \cap fields |-> p[x]]

\* Properties over which the upsell rules are explored: every combination of the
\* bed fields on the base lot, and every combination of the lawn fields on the
\* base beds.
UpsellProperties ==
    {a @@ b @@ c @@ Only(UpsellBase, {"lawnSqft", "rooflineFt", "treeCoverage", "grassHeight"}) :
        a \in OptField("bedSqft", {0, 150, 200, 201, 500, 501, 600}),
        b \in OptField("bedCondition", {"good", "needs_work", "overgrown"}),
        c \in OptField("bushCount", 0 .. MaxBushCount)}
    \cup
    {a @@ b @@ c @@ d @@ Only(UpsellBase, {"bedSqft", "bedCondition", "bushCount"}) :
        a \in OptField("lawnSqft", {250 * k : k \in 0 .. MaxLawnUnits} \cup {10000}),
        b \in OptField("rooflineFt", {0, 150}),
        c \in OptField("treeCoverage", {"light", "moderate", "heavy"}),
        d \in OptField("grassHeight", {"normal", "overgrown", "very_overgrown"})}

\* Properties over which the materials list is explored.
MaterialProperties ==
    {a @@ b @@ c @@ Only(UpsellBase, {"bedCondition", "bushCount"}) :
        a \in OptField("lawnSqft", {250 * k : k \in 0 .. MaxLawnUnits} \cup {4001, 10000}),
        b \in OptField("bedSqft", {0, 600}),
        c \in OptField("rooflineFt", {0, 110})}

\* Upsell codes a caller may pass as selectedUpsells.
SelectableUpsells == {"MULCH_INSTALL", "BUSH_TRIMMING", "SEASONAL_PACKAGE", "LIGHTS_INSTALL"}

\* A rate change of every card the upsell rules read.
RepricedRateCards ==
    [c \in ServiceCodes |->
        [SeedRateCards[c] EXCEPT !.base_rate =
            CASE c = "EDGING"           -> 275
              [] c = "BUSH_TRIMMING"    -> 1550
              [] c = "MULCH_INSTALL"    -> 9525
              [] c = "BED_MAINTENANCE"  -> 2510
              [] c = "LEAF_CLEANUP"     -> 610
              [] c = "SEASONAL_PACKAGE" -> 65050
              [] c = "LIGHTS_INSTALL"   -> 315
              [] OTHER                  -> @]]

\* Rate catalogs over which the upsell rules are explored: the seed rates, the
\* changed rates, and the seed with one card inactive.
UpsellCatalogs ==
    {SeedRateCards, RepricedRateCards}
        \cup {[SeedRateCards EXCEPT ![c].active = FALSE] : c \in UpsellServiceCodes}

\* Contents of regional_adjustments: the seed rows, one of them possibly inactive.
AdjustmentTables ==
    {SeedRegionalAdjustments}
        \cup {[SeedRegionalAdjustments EXCEPT ![z].active = FALSE] :
                 z \in DOMAIN SeedRegionalAdjustments}

\* Bed areas 0..MaxBedSqft and depths 1..MaxDepthInches are enumerated for the
\* mulch yardage; lawns of 0..MaxLaborLawnUnits half-thousands of sqft for the
\* labor hours.
MaxBedSqft == 120

MaxDepthInches == 4

MaxLaborLawnUnits == 6

\* Entry points: calculateAllTiers(property), and calculatePricing(property,
\* serviceType, tier) with a tier, without one, or with a string that is no tier.
Calls ==
    {<<"calculateAllTiers", "none">>}
        \cup {<<"calculatePricing", t>> : t \in TierTypes \cup {"none", "platinum"}}

--------------------------------------------------------------------------
(* The state machine.                                                      *)

NoRequest ==
    /\ pc = "idle"
    /\ op = "none"
    /\ property = <<>>
    /\ tierArg = "none"
    /\ rateCardMap = <<>>
    /\ regionalMultiplier = NaN
    /\ allTiers = <<>>
    /\ pricing = <<>>
    /\ error = "none"
    /\ serviceType = "none"
    /\ selectedUpsells = {}
    /\ upsells = <<>>
    /\ materials = <<>>
    /\ jobDescription = <<>>

NoCall ==
    /\ call = <<>>
    /\ result = <<>>

\* No quote is stored and nothing has gone to Jobber.
JobberIdle ==
    [sendMethod |-> "none", jobberClientId |-> "none", quoteId |-> "none", sent |-> FALSE]

NoQuote ==
    /\ quote = <<>>
    /\ customer = <<>>
    /\ jobber = JobberIdle
    /\ jobber_sync_log = <<>>

Init ==
    /\ rate_cards = SeedRateCards
    /\ regional_adjustments = SeedRegionalAdjustments
    /\ adminOps = 0
    /\ NoRequest
    /\ NoCall
    /\ NoQuote

InitTiers ==
    /\ rate_cards \in TierCatalogs
    /\ regional_adjustments = SeedRegionalAdjustments
    /\ adminOps = 0
    /\ NoRequest
    /\ NoCall
    /\ NoQuote

\* A caller invokes calculateAllTiers or calculatePricing.
StartRequest(props, calls) ==
    /\ pc = "idle"
    /\ \E p \in props, c \in calls :
        /\ property' = p
        /\ op' = c[1]
        /\ tierArg' = c[2]
    /\ pc' = "loadRateCards"
    /\ UNCHANGED <<rate_cards, regional_adjustments, adminOps, rateCardMap,
                   regionalMultiplier, allTiers, pricing, error,
                   upsellVars, helperVars, jobberVars>>

\* calculateAllTiers: const rateCards = await loadRateCards()
LoadRateCards ==
    /\ pc = "loadRateCards"
    /\ rateCardMap' = loadRateCards(rate_cards)
    /\ pc' = "getRegionalMultiplier"
    /\ UNCHANGED <<rate_cards, regional_adjustments, adminOps, op, property, tierArg,
                   regionalMultiplier, allTiers, pricing, error,
                   upsellVars, helperVars, jobberVars>>

\* loadRateCards: the query returns an error
LoadRateCardsFails ==
    /\ pc = "loadRateCards"
    /\ error' = "AppError500"
    /\ pc' = "failed"
    /\ UNCHANGED <<rate_cards, regional_adjustments, adminOps, op, property, tierArg,
                   rateCardMap, regionalMultiplier, allTiers, pricing,
                   upsellVars, helperVars, jobberVars>>

\* calculateAllTiers from `await getRegionalMultiplier(property.zipCode)` to its
\* return, and calculatePricing up to its own await of getRegionalMultiplier.
CalculateAllTiers ==
    /\ pc = "getRegionalMultiplier"
    /\ LET regional == getRegionalMultiplier(regional_adjustments, property)
       IN  /\ regionalMultiplier' = regional
           /\ IF MissingRateCard(rateCardMap)
              THEN /\ allTiers' = <<>>
                   /\ error' = "TypeError"
                   /\ pc' = "failed"
              ELSE LET tiers == TierList(TierCosts(property, rateCardMap, regional))
                   IN  /\ allTiers' = tiers
                       /\ IF op = "calculateAllTiers"
                          THEN error' = "none" /\ pc' = "done"
                          ELSE IF tierArg # "none" /\ FindTier(tiers, tierArg) = {}
                               THEN error' = "AppError400" /\ pc' = "failed"
                               ELSE error' = "none" /\ pc' = "calculatePricing"
    /\ UNCHANGED <<rate_cards, regional_adjustments, adminOps, op, property, tierArg,
                   rateCardMap, pricing,
                   upsellVars, helperVars, jobberVars>>

\* calculatePricing: the PricingCalculation it returns, with its own
\* `await getRegionalMultiplier(property.zipCode)`
CalculatePricing ==
    /\ pc = "calculatePricing"
    /\ LET selected == IF tierArg # "none" THEN tierArg ELSE "premier"
           t == allTiers[CHOOSE i \in FindTier(allTiers, selected) :
                            \A j \in FindTier(allTiers, selected) : i <= j]
       IN  pricing' =
             [basePrice |-> t.annualPrice,
              complexityMultiplier |-> complexityMultiplierOf(property),
              regionalMultiplier |-> getRegionalMultiplier(regional_adjustments, property),
              distanceMiles |-> calculateDistanceFromServiceCenter(property),
              finalAnnualPrice |-> t.annualPrice,
              finalMonthlyPrice |-> t.monthlyPrice]
    /\ pc' = IF op = "postQuote" THEN "generateUpsells" ELSE "done"
    /\ UNCHANGED <<rate_cards, regional_adjustments, adminOps, op, property, tierArg,
                   rateCardMap, regionalMultiplier, allTiers, error,
                   upsellVars, helperVars, jobberVars>>

\* The caller has its answer; the next request starts from scratch.
Finish ==
    /\ pc \in {"done", "failed"}
    /\ pc' = "idle"
    /\ op' = "none"
    /\ property' = <<>>
    /\ tierArg' = "none"
    /\ rateCardMap' = <<>>
    /\ regionalMultiplier' = NaN
    /\ allTiers' = <<>>
    /\ pricing' = <<>>
    /\ error' = "none"
    /\ serviceType' = "none"
    /\ selectedUpsells' = {}
    /\ upsells' = <<>>
    /\ materials' = <<>>
    /\ jobDescription' = <<>>
    /\ jobber' = JobberIdle
    /\ UNCHANGED <<rate_cards, regional_adjustments, adminOps, helperVars,
                   quote, customer, jobber_sync_log>>

\* UPDATE rate_cards SET base_rate = ... WHERE service_code = code
UpdateRateCard(code, rate) ==
    /\ adminOps < MaxAdminOps
    /\ code \in DOMAIN rate_cards
    /\ rate_cards[code].base_rate # rate
    /\ rate_cards' = [rate_cards EXCEPT ![code].base_rate = rate]
    /\ adminOps' = adminOps + 1
    /\ UNCHANGED <<regional_adjustments, pc, op, property, tierArg, rateCardMap,
                   regionalMultiplier, allTiers, pricing, error,
                   upsellVars, helperVars, jobberVars>>

\* A rate card's `active` column is switched off
DeactivateRateCard(code) ==
    /\ adminOps < MaxAdminOps
    /\ code \in DOMAIN rate_cards
    /\ rate_cards[code].active
    /\ rate_cards' = [rate_cards EXCEPT ![code].active = FALSE]
    /\ adminOps' = adminOps + 1
    /\ UNCHANGED <<regional_adjustments, pc, op, property, tierArg, rateCardMap,
                   regionalMultiplier, allTiers, pricing, error,
                   upsellVars, helperVars, jobberVars>>

\* INSERT INTO regional_adjustments (zip_code, multiplier), or an update of the row
SetRegionalAdjustment(zip, m) ==
    /\ adminOps < MaxAdminOps
    /\ IF zip \in DOMAIN regional_adjustments
       THEN regional_adjustments[zip].multiplier # m
       ELSE TRUE
    /\ regional_adjustments' =
         [z \in DOMAIN regional_adjustments \cup {zip} |->
            IF z = zip THEN [multiplier |-> m, active |-> TRUE]
            ELSE regional_adjustments[z]]
    /\ adminOps' = adminOps + 1
    /\ UNCHANGED <<rate_cards, pc, op, property, tierArg, rateCardMap,
                   regionalMultiplier, allTiers, pricing, error,
                   upsellVars, helperVars, jobberVars>>

Admin ==
    \/ \E code \in TierServiceCodes : UpdateRateCard(code, 500)
    \/ \E code \in TierServiceCodes : DeactivateRateCard(code)
    \/ \E zip \in {"45247", "45299"} : SetRegionalAdjustment(zip, 110)

\* A caller invokes generateUpsells(property, serviceType, tier).
StartUpsells(props, services) ==
    /\ pc = "idle"
    /\ \E p \in props, st \in services, t \in TierTypes :
        /\ property' = p
        /\ serviceType' = st
        /\ tierArg' = t
    /\ op' = "generateUpsells"
    /\ pc' = "generateUpsells"
    /\ UNCHANGED <<rate_cards, regional_adjustments, adminOps, rateCardMap,
                   regionalMultiplier, allTiers, pricing, error,
                   selectedUpsells, upsells, materials, jobDescription,
                   helperVars, jobberVars>>

\* generateUpsells: the rate cards are loaded and the seven rules evaluated
GenerateUpsells ==
    /\ pc = "generateUpsells"
    /\ rateCardMap' = upsellRateCardMap(rate_cards)
    /\ upsells' = generateUpsells(property, tierArg, rate_cards)
    /\ pc' = IF op = "postQuote" THEN "generateMaterialsList" ELSE "done"
    /\ UNCHANGED <<rate_cards, regional_adjustments, adminOps, op, property, tierArg,
                   regionalMultiplier, allTiers, pricing, error,
                   serviceType, selectedUpsells, materials, jobDescription,
                   helperVars, jobberVars>>

\* generateUpsells: the query returns no data, `return []`
GenerateUpsellsNoData ==
    /\ pc = "generateUpsells"
    /\ rateCardMap' = <<>>
    /\ upsells' = <<>>
    /\ pc' = IF op = "postQuote" THEN "generateMaterialsList" ELSE "done"
    /\ UNCHANGED <<rate_cards, regional_adjustments, adminOps, op, property, tierArg,
                   regionalMultiplier, allTiers, pricing, error,
                   serviceType, selectedUpsells, materials, jobDescription,
                   helperVars, jobberVars>>

\* A caller invokes generateMaterialsList(property, serviceType, selectedUpsells);
\* the tier of the quote is in the caller's scope but is no argument.
StartMaterials(props) ==
    /\ pc = "idle"
    /\ \E p \in props, st \in ServiceTypes, sel \in SUBSET SelectableUpsells,
          t \in TierTypes :
        /\ property' = p
        /\ serviceType' = st
        /\ selectedUpsells' = sel
        /\ tierArg' = t
    /\ op' = "generateMaterialsList"
    /\ pc' = "generateMaterialsList"
    /\ UNCHANGED <<rate_cards, regional_adjustments, adminOps, rateCardMap,
                   regionalMultiplier, allTiers, pricing, error,
                   upsells, materials, jobDescription,
                   helperVars, jobberVars>>

GenerateMaterialsList ==
    /\ pc = "generateMaterialsList"
    /\ materials' = generateMaterialsList(property, serviceType, selectedUpsells)
    /\ pc' = IF op = "postQuote" THEN "generateJobDescription" ELSE "done"
    /\ UNCHANGED <<rate_cards, regional_adjustments, adminOps, op, property, tierArg,
                   rateCardMap, regionalMultiplier, allTiers, pricing, error,
                   serviceType, selectedUpsells, upsells, jobDescription,
                   helperVars, jobberVars>>

\* POST /quote with a valid body, for a stored property: the handler up to its
\* call of calculatePricing(property, serviceType, tier).  One quote row is followed.
StartQuote(props) ==
    /\ pc = "idle"
    /\ quote = <<>>
    /\ \E p \in props, st \in {"mowing", "mulch"}, t \in TierTypes :
        /\ property' = p
        /\ serviceType' = st
        /\ tierArg' = t
    /\ op' = "postQuote"
    /\ pc' = "loadRateCards"
    /\ UNCHANGED <<rate_cards, regional_adjustments, adminOps, rateCardMap,
                   regionalMultiplier, allTiers, pricing, error,
                   selectedUpsells, upsells, materials, jobDescription,
                   helperVars, jobberVars>>

\* POST /quote: validation fails (400), or the property is not found (404)
QuoteRejected ==
    /\ pc = "idle"
    /\ quote = <<>>
    /\ \E e \in {"AppError400", "AppError404"} : error' = e
    /\ op' = "postQuote"
    /\ pc' = "failed"
    /\ UNCHANGED <<rate_cards, regional_adjustments, adminOps, property, tierArg,
                   rateCardMap, regionalMultiplier, allTiers, pricing,
                   upsellVars, helperVars, jobberVars>>

\* POST /quote: generateJobDescription(property, serviceType, tier,
\* upsells.filter((u) => u.recommended))
GenerateJobDescription ==
    /\ pc = "generateJobDescription"
    /\ jobDescription' = generateJobDescription(property, serviceType, tierArg,
                                                recommendedOf(upsells))
    /\ pc' = "insertQuote"
    /\ UNCHANGED <<rate_cards, regional_adjustments, adminOps, op, property, tierArg,
                   rateCardMap, regionalMultiplier, allTiers, pricing, error,
                   serviceType, selectedUpsells, upsells, materials,
                   helperVars, jobberVars>>

\* POST /quote: the row inserted into quotes
quoteRowOf(service, tier, p, list, mats, text) ==
    [service_type |-> service,
     tier |-> tier,
     base_price |-> p.basePrice,
     complexity_multiplier |-> p.complexityMultiplier,
     regional_multiplier |-> p.regionalMultiplier,
     distance_miles |-> p.distanceMiles,
     final_annual_price |-> p.finalAnnualPrice,
     final_monthly_price |-> p.finalMonthlyPrice,
     recommended_upsells |-> list,
     materials_list |-> mats,
     job_description |-> text,
     status |-> "draft",
     jobber_quote_id |-> "none",
     jobber_sent_at |-> FALSE]

\* POST /quote: supabase.from('quotes').insert({...})
InsertQuote ==
    /\ pc = "insertQuote"
    /\ quote' = quoteRowOf(serviceType, tierArg, pricing, upsells, materials,
                           jobDescription)
    /\ pc' = "done"
    /\ UNCHANGED <<rate_cards, regional_adjustments, adminOps, op, property, tierArg,
                   rateCardMap, regionalMultiplier, allTiers, pricing, error,
                   upsellVars, helperVars, customer, jobber, jobber_sync_log>>

\* POST /quote: the insert returns an error
InsertQuoteFails ==
    /\ pc = "insertQuote"
    /\ error' = "AppError500"
    /\ pc' = "failed"
    /\ UNCHANGED <<rate_cards, regional_adjustments, adminOps, op, property, tierArg,
                   rateCardMap, regionalMultiplier, allTiers, pricing,
                   upsellVars, helperVars, jobberVars>>

Next ==
    \/ StartRequest(CoreProperties, Calls)
    \/ LoadRateCards
    \/ LoadRateCardsFails
    \/ CalculateAllTiers
    \/ CalculatePricing
    \/ StartUpsells(CoreProperties, ServiceTypes)
    \/ GenerateUpsells
    \/ GenerateUpsellsNoData
    \/ Finish
    \/ Admin

Spec == Init /\ [][Next]_vars

NextTiers ==
    \/ StartRequest(TierProperties, {<<"calculateAllTiers", "none">>})
    \/ LoadRateCards
    \/ CalculateAllTiers
    \/ Finish

SpecTiers == InitTiers /\ [][NextTiers]_vars

InitUpsells ==
    /\ rate_cards \in UpsellCatalogs
    /\ regional_adjustments = SeedRegionalAdjustments
    /\ adminOps = 0
    /\ NoRequest
    /\ NoCall
    /\ NoQuote

NextUpsells ==
    \/ StartUpsells(UpsellProperties, {"mowing", "mulch"})
    \/ GenerateUpsells
    \/ GenerateUpsellsNoData
    \/ Finish

SpecUpsells == InitUpsells /\ [][NextUpsells]_vars

NextMaterials ==
    \/ StartMaterials(MaterialProperties)
    \/ GenerateMaterialsList
    \/ Finish

SpecMaterials == Init /\ [][NextMaterials]_vars

\* Properties of stored quotes: the lot of the upsell scenario with its beds,
\* bushes, condition and ZIP code varied.
QuoteProperties ==
    {a @@ b @@ c @@ d @@ e
       @@ Only(UpsellBase, {"lawnSqft", "rooflineFt", "bedCondition", "treeCoverage",
                            "grassHeight"}) :
        a \in OptField("bedSqft", {0, 600}),
        b \in OptField("bushCount", {8}),
        c \in OptField("conditionScore", {0, 3, 4, 5}),
        d \in Field("zipCode", {"45247", "45299"}),
        e \in Field("latlng", {800, 1500})}

\* Storage updates beside quotes: a rate change or a switched-off card of an
\* upsell, a changed regional adjustment.
AdminQuote ==
    \/ \E code \in {"LEAF_CLEANUP", "LIGHTS_INSTALL"} : UpdateRateCard(code, 500)
    \/ \E code \in {"BUSH_TRIMMING"} : DeactivateRateCard(code)
    \/ \E zip \in {"45247"} : SetRegionalAdjustment(zip, 110)

NextQuote ==
    \/ StartQuote(QuoteProperties)
    \/ QuoteRejected
    \/ LoadRateCards
    \/ LoadRateCardsFails
    \/ CalculateAllTiers
    \/ CalculatePricing
    \/ GenerateUpsells
    \/ GenerateUpsellsNoData
    \/ GenerateMaterialsList
    \/ GenerateJobDescription
    \/ InsertQuote
    \/ InsertQuoteFails
    \/ Finish
    \/ AdminQuote

SpecQuote == Init /\ [][NextQuote]_vars

\* Properties a caller asks the tiers of more than once.
RepeatProperties ==
    {a @@ b @@ Only(UpsellBase, {"lawnSqft", "rooflineFt", "bedSqft", "bedCondition",
                                 "bushCount"}) @@ [latlng |-> 800] :
        a \in OptField("conditionScore", {4}),
        b \in Field("zipCode", {"45247", "45299"})}

\* The caller of calculateAllTiers keeps the tiers it was answered, with the
\* property it asked about and the storage as it then was.
KeepResponse ==
    /\ pc = "done"
    /\ op = "calculateAllTiers"
    /\ call = <<>>
    /\ call' = [fn |-> "calculateAllTiers",
                args |-> <<property, rate_cards, regional_adjustments>>,
                stored |-> quote]
    /\ result' = allTiers
    /\ UNCHANGED <<rate_cards, regional_adjustments, adminOps, pc, op, property, tierArg,
                   rateCardMap, regionalMultiplier, allTiers, pricing, error, upsellVars,
                   jobberVars>>

\* Storage is updated between two requests.
AdminBetweenRequests == pc = "idle" /\ Admin

NextRepeat ==
    \/ StartRequest(RepeatProperties, {<<"calculateAllTiers", "none">>})
    \/ LoadRateCards
    \/ CalculateAllTiers
    \/ KeepResponse
    \/ StartQuote(RepeatProperties)
    \/ CalculatePricing
    \/ GenerateUpsells
    \/ GenerateMaterialsList
    \/ GenerateJobDescription
    \/ InsertQuote
    \/ Finish
    \/ AdminBetweenRequests

SpecRepeat == Init /\ [][NextRepeat]_vars

\* Rows of jobber_sync_log followed per behaviour.
MaxSyncLog == 3

\* The quote POST /quote stores for a property, a service type and a tier
\* under the seed data.
StoredQuote(p, service, tier) ==
    LET tiers == TierList(TierCosts(p, loadRateCards(SeedRateCards),
                                    getRegionalMultiplier(SeedRegionalAdjustments, p)))
        t     == tiers[CHOOSE i \in DOMAIN tiers : tiers[i].tier = tier]
        list  == generateUpsells(p, tier, SeedRateCards)
    IN  quoteRowOf(service, tier,
                   [basePrice |-> t.annualPrice,
                    complexityMultiplier |-> complexityMultiplierOf(p),
                    regionalMultiplier |-> getRegionalMultiplier(SeedRegionalAdjustments, p),
                    distanceMiles |-> calculateDistanceFromServiceCenter(p),
                    finalAnnualPrice |-> t.annualPrice,
                    finalMonthlyPrice |-> t.monthlyPrice],
                   list, generateMaterialsList(p, service, {}),
                   generateJobDescription(p, service, tier, recommendedOf(list)))

StoredQuotes ==
    {StoredQuote(p, st, t) : p \in RepeatProperties, st \in {"mowing", "mulch"},
                             t \in TierTypes}

\* Customers: with or without an email address, not yet synced to Jobber.
Customers == {[email |-> e, jobber_client_id |-> "none"] : e \in BOOLEAN}

\* What a Jobber mutation can come to: its result, userErrors in its result,
\* or a failed request (GraphQL errors included).
JobberOutcomes == {"ok", "userErrors", "requestFailed"}

\* AppError(userErrors[0].message, 400); executeQuery's AppError('Failed to
\* communicate with Jobber', 500)
JobberErrorOf(outcome) == IF outcome = "userErrors" THEN "AppError400" ELSE "AppError500"

SyncLog(action, status) == [action |-> action, status |-> status]

\* POST /create-quote for a stored quote with a customer:
\* jobberClient.createAndSendQuote(quote, property, customer, sendMethod)
StartCreateAndSendQuote ==
    /\ pc = "idle"
    /\ quote # <<>>
    /\ customer # <<>>
    /\ Len(jobber_sync_log) < MaxSyncLog
    /\ \E m \in {"email", "sms"} : jobber' = [JobberIdle EXCEPT !.sendMethod = m]
    /\ op' = "createAndSendQuote"
    /\ pc' = "searchClientByEmail"
    /\ UNCHANGED <<rate_cards, regional_adjustments, adminOps, property, tierArg,
                   rateCardMap, regionalMultiplier, allTiers, pricing, error,
                   upsellVars, helperVars, quote, customer, jobber_sync_log>>

\* Step 1: searchClientByEmail if the customer has an email; a failed search
\* is answered null
SearchClientByEmail ==
    /\ pc = "searchClientByEmail"
    /\ \E found \in IF customer.email THEN {"existing", "none"} ELSE {"none"} :
        /\ jobber' = [jobber EXCEPT !.jobberClientId = found]
        /\ pc' = IF found = "none" THEN "createClient" ELSE "createQuote"
    /\ UNCHANGED <<rate_cards, regional_adjustments, adminOps, op, property, tierArg,
                   rateCardMap, regionalMultiplier, allTiers, pricing, error,
                   upsellVars, helperVars, quote, customer, jobber_sync_log>>

\* createAndSendQuote's catch: the failure is logged and the error re-thrown
JobberWorkflowFailed(outcome) ==
    /\ jobber_sync_log' = Append(jobber_sync_log, SyncLog("create_quote", "failed"))
    /\ error' = JobberErrorOf(outcome)
    /\ pc' = "failed"

\* Step 2: createClient, and the customer row updated with the Jobber id
CreateClient ==
    /\ pc = "createClient"
    /\ \E outcome \in JobberOutcomes :
        IF outcome = "ok"
        THEN /\ jobber' = [jobber EXCEPT !.jobberClientId = "created"]
             /\ jobber_sync_log' = Append(jobber_sync_log, SyncLog("create_client", "success"))
             /\ customer' = [customer EXCEPT !.jobber_client_id = "created"]
             /\ pc' = "createQuote"
             /\ UNCHANGED error
        ELSE /\ JobberWorkflowFailed(outcome)
             /\ UNCHANGED <<jobber, customer>>
    /\ UNCHANGED <<rate_cards, regional_adjustments, adminOps, op, property, tierArg,
                   rateCardMap, regionalMultiplier, allTiers, pricing,
                   upsellVars, helperVars, quote>>

\* Step 3: createQuote
CreateQuote ==
    /\ pc = "createQuote"
    /\ \E outcome \in JobberOutcomes :
        IF outcome = "ok"
        THEN /\ jobber' = [jobber EXCEPT !.quoteId = "created"]
             /\ jobber_sync_log' = Append(jobber_sync_log, SyncLog("create_quote", "success"))
             /\ pc' = "updateQuote"
             /\ UNCHANGED error
        ELSE /\ JobberWorkflowFailed(outcome)
             /\ UNCHANGED jobber
    /\ UNCHANGED <<rate_cards, regional_adjustments, adminOps, op, property, tierArg,
                   rateCardMap, regionalMultiplier, allTiers, pricing,
                   upsellVars, helperVars, quote, customer>>

\* "Update quote record": supabase.from('quotes').update({jobber_quote_id,
\* jobber_quote_number, status: 'sent', jobber_sent_at}).eq('id', quote.id)
UpdateQuoteRecord ==
    /\ pc = "updateQuote"
    /\ quote' = [quote EXCEPT !.jobber_quote_id = jobber.quoteId,
                              !.status = "sent",
                              !.jobber_sent_at = TRUE]
    /\ pc' = "sendQuote"
    /\ UNCHANGED <<rate_cards, regional_adjustments, adminOps, op, property, tierArg,
                   rateCardMap, regionalMultiplier, allTiers, pricing, error,
                   upsellVars, helperVars, customer, jobber, jobber_sync_log>>

\* Step 4: sendQuote(quoteId, sendMethod)
SendQuote ==
    /\ pc = "sendQuote"
    /\ \E outcome \in JobberOutcomes :
        IF outcome = "ok"
        THEN /\ jobber' = [jobber EXCEPT !.sent = TRUE]
             /\ jobber_sync_log' = Append(jobber_sync_log, SyncLog("send_quote", "success"))
             /\ pc' = "done"
             /\ UNCHANGED error
        ELSE /\ JobberWorkflowFailed(outcome)
             /\ UNCHANGED jobber
    /\ UNCHANGED <<rate_cards, regional_adjustments, adminOps, op, property, tierArg,
                   rateCardMap, regionalMultiplier, allTiers, pricing,
                   upsellVars, helperVars, quote, customer>>

InitJobber ==
    /\ rate_cards = SeedRateCards
    /\ regional_adjustments = SeedRegionalAdjustments
    /\ adminOps = 0
    /\ NoRequest
    /\ NoCall
    /\ quote \in StoredQuotes
    /\ customer \in Customers
    /\ jobber = JobberIdle
    /\ jobber_sync_log = <<>>

NextJobber ==
    \/ StartCreateAndSendQuote
    \/ SearchClientByEmail
    \/ CreateClient
    \/ CreateQuote
    \/ UpdateQuoteRecord
    \/ SendQuote
    \/ Finish

SpecJobber == InitJobber /\ [][NextJobber]_vars

\* calculateMulchYardage(bedSqft, depthInches), or calculateMulchYardage(bedSqft)
CallCalculateMulchYardage ==
    /\ call = <<>>
    /\ \E b \in (0 .. MaxBedSqft) \cup {162, 200, 201, 324, 500, 600, 1000},
          rest \in {<<>>} \cup {<<d>> : d \in 1 .. MaxDepthInches} :
        /\ call' = [fn |-> "calculateMulchYardage", args |-> <<b>> \o rest]
        /\ result' = calculateMulchYardage(b, IF rest = <<>> THEN DefaultDepthInches
                                                            ELSE rest[1])
    /\ UNCHANGED <<rate_cards, regional_adjustments, adminOps, pc, op, property, tierArg,
                   rateCardMap, regionalMultiplier, allTiers, pricing, error, upsellVars,
                   jobberVars>>

\* estimateLaborHours(serviceType, lawnSqft, complexityScore)
CallEstimateLaborHours ==
    /\ call = <<>>
    /\ \E st \in ServiceTypes,
          l \in {500 * k : k \in 0 .. MaxLaborLawnUnits} \cup {1, 10000, 15000},
          c \in 1 .. 5 :
        /\ call' = [fn |-> "estimateLaborHours", args |-> <<st, l, c>>]
        /\ result' = estimateLaborHours(st, l, c)
    /\ UNCHANGED <<rate_cards, regional_adjustments, adminOps, pc, op, property, tierArg,
                   rateCardMap, regionalMultiplier, allTiers, pricing, error, upsellVars,
                   jobberVars>>

\* getRegionalMultiplier(zipCode) against the stored adjustments; the query
\* may fail
CallGetRegionalMultiplier ==
    /\ call = <<>>
    /\ \E z \in OptField("zipCode", {"45247", "45242", "45243", "45299"}),
          queryError \in BOOLEAN :
        /\ call' = [fn |-> "getRegionalMultiplier", args |-> <<z, queryError>>]
        /\ result' = getRegionalMultiplierOrError(regional_adjustments, z, queryError)
    /\ UNCHANGED <<rate_cards, regional_adjustments, adminOps, pc, op, property, tierArg,
                   rateCardMap, regionalMultiplier, allTiers, pricing, error, upsellVars,
                   jobberVars>>

\* The helper has returned to its caller.
Return ==
    /\ call # <<>>
    /\ call' = <<>>
    /\ result' = <<>>
    /\ UNCHANGED <<rate_cards, regional_adjustments, adminOps, pc, op, property, tierArg,
                   rateCardMap, regionalMultiplier, allTiers, pricing, error, upsellVars,
                   jobberVars>>

InitHelpers ==
    /\ rate_cards = SeedRateCards
    /\ regional_adjustments \in AdjustmentTables
    /\ adminOps = 0
    /\ NoRequest
    /\ NoCall
    /\ NoQuote

NextHelpers ==
    \/ CallCalculateMulchYardage
    \/ CallEstimateLaborHours
    \/ CallGetRegionalMultiplier
    \/ Return

SpecHelpers == InitHelpers /\ [][NextHelpers]_vars

--------------------------------------------------------------------------
(* Properties.                                                             *)

\* calculateAllTiers has returned its three tiers.
Returned == allTiers # <<>>

\* The sum of the line items of a breakdown.
RECURSIVE SumOver(_, _)
SumOver(f, keys) ==
    IF keys = {} THEN 0
    ELSE LET k == CHOOSE x \in keys : TRUE IN f[k] + SumOver(f, keys \ {k})

BreakdownSum(t) == SumOver(t.breakdown, DOMAIN t.breakdown)

\* The combined multiplier of the request: regional * complexity * distance.
CombinedMultiplier ==
    RMul(RMul(regionalMultiplier,
              conditionScoreToMultiplier(OrElse(property, "conditionScore", 3))),
         calculateDistanceMultiplier(calculateDistanceFromServiceCenter(property)))

\* The four costs of the claimed formulas, exact (not rounded), under multiplier M.
ExactMowing(M) ==
    RMul(RMul(RMul(Rat(lawnSqftOf(property), 1000), rateCardMap["MOWING_BASE"].baseRate),
              Whole(rateCardMap["MOWING_BASE"].factor)), M)

ExactFullLeaf(M) ==
    RMul(RMul(RMul(Rat(lawnSqftOf(property), 1000), rateCardMap["LEAF_CLEANUP"].baseRate),
              Whole(rateCardMap["LEAF_CLEANUP"].factor)), M)

ExactSeasonal(M) == RMul(rateCardMap["SEASONAL_PACKAGE"].baseRate, M)

ExactLights(M) ==
    RMul(RMul(Whole(rooflineFtOf(property)), rateCardMap["LIGHTS_INSTALL"].baseRate), M)

\* The three tier sums composed from four costs.
Compose(mowing, fullLeaf, seasonal, lights) ==
    [grass_roots |-> RAdd(mowing, RMul(fullLeaf, Rat(1, 4))),
     premier |-> RAdd(RAdd(mowing, fullLeaf), seasonal),
     total_landscape |->
        RMul(RAdd(RAdd(RAdd(mowing, fullLeaf), seasonal), lights), Rat(115, 100))]

\* ... from the exact costs
ExactSums(M) == Compose(ExactMowing(M), ExactFullLeaf(M), ExactSeasonal(M), ExactLights(M))

\* ... from the costs rounded to the cent
CentSums(M) ==
    Compose(RoundTo2(ExactMowing(M)), RoundTo2(ExactFullLeaf(M)),
            RoundTo2(ExactSeasonal(M)), RoundTo2(ExactLights(M)))

AnnualPricesAre(sums) ==
    /\ allTiers[1].tier = "grass_roots"
    /\ allTiers[1].annualPrice = MathRound(sums.grass_roots)
    /\ allTiers[2].tier = "premier"
    /\ allTiers[2].annualPrice = MathRound(sums.premier)
    /\ allTiers[3].tier = "total_landscape"
    /\ allTiers[3].annualPrice = MathRound(sums.total_landscape)

\* The inputs C1 calls valid: non-negative measurements, rates >= 0, factors >= 1,
\* a positive combined multiplier.
ValidTierInputs ==
    /\ lawnSqftOf(property) >= 0
    /\ rooflineFtOf(property) >= 0
    /\ \A c \in DOMAIN rateCardMap :
          rateCardMap[c].baseRate[1] >= 0 /\ rateCardMap[c].factor >= 1
    /\ CombinedMultiplier[1] > 0

(* C1: for valid inputs the three tiers calculateAllTiers returns are ordered:  *)
(* grass_roots.annualPrice <= premier.annualPrice <= total_landscape.annualPrice *)
C1_TierOrdering ==
    (Returned /\ ValidTierInputs) =>
        /\ allTiers[1].annualPrice <= allTiers[2].annualPrice
        /\ allTiers[2].annualPrice <= allTiers[3].annualPrice

\* Tiers returned for the documented scenario's measurements, strictly ordered.
C1_Witness ==
    /\ Returned
    /\ ValidTierInputs
    /\ lawnSqftOf(property) = 10000
    /\ rooflineFtOf(property) = 150
    /\ 0 < allTiers[1].annualPrice
    /\ allTiers[1].annualPrice < allTiers[2].annualPrice
    /\ allTiers[2].annualPrice < allTiers[3].annualPrice

(* C2 as stated: for every tier returned, the sum of the breakdown line items   *)
(* differs from the tier's annualPrice by at most 1.                            *)
C2_BreakdownWithinOne ==
    Returned => \A i \in DOMAIN allTiers :
        Abs(BreakdownSum(allTiers[i]) - allTiers[i].annualPrice) <= 1

(* C3 as stated: each annualPrice is the rounding of the tier's sum of the      *)
(* costs (lawnSqft/1000)*rate*factor, flat seasonal rate, rooflineFt*rate, each *)
(* scaled by regional * complexity * distance: grass_roots = mowing + 0.25 *    *)
(* fullLeaf, premier = mowing + fullLeaf + seasonal, total_landscape = 1.15 *   *)
(* (premier + lights).                                                          *)
C3_AnnualIsRoundedExactSum ==
    Returned => AnnualPricesAre(ExactSums(CombinedMultiplier))

(* C3 amended: the same composition, with each of the four costs rounded to the *)
(* cent before it is summed; each annualPrice is the whole-unit rounding of the *)
(* sum of the cent-rounded costs.                                               *)
C3_AnnualIsRoundedCentSum ==
    Returned => AnnualPricesAre(CentSums(CombinedMultiplier))

\* Tiers returned where the cent rounding of a cost moves a price by a whole unit.
C3_Witness ==
    /\ Returned
    /\ AnnualPricesAre(CentSums(CombinedMultiplier))
    /\ ~AnnualPricesAre(ExactSums(CombinedMultiplier))
    /\ lawnSqftOf(property) > 0

(* C9 as stated: for every tier, monthlyPrice equals round(annualPrice / 12),   *)
(* annualPrice being the tier's reported, whole-unit rounded annual price.      *)
C9_MonthlyFromRoundedAnnual ==
    Returned => \A i \in DOMAIN allTiers :
        allTiers[i].monthlyPrice = MathRound(Rat(allTiers[i].annualPrice, 12))

\* The tier sums before their whole-unit rounding, in the order of allTiers.
UnroundedAnnual ==
    LET sums == CentSums(CombinedMultiplier)
    IN  <<sums.grass_roots, sums.premier, sums.total_landscape>>

(* C9 amended: for every tier, monthlyPrice equals round(a / 12) where a is the *)
(* tier's annual sum before its whole-unit rounding (annualPrice = round(a));   *)
(* it is within 1 of round(annualPrice / 12).                                   *)
C9_MonthlyFromUnroundedAnnual ==
    Returned => \A i \in DOMAIN allTiers :
        /\ allTiers[i].annualPrice = MathRound(UnroundedAnnual[i])
        /\ allTiers[i].monthlyPrice = MathRound(RMul(UnroundedAnnual[i], Rat(1, 12)))
        /\ Abs(allTiers[i].monthlyPrice - MathRound(Rat(allTiers[i].annualPrice, 12))) <= 1

\* A tier whose monthly price is not the twelfth of its reported annual price.
C9_Witness ==
    /\ Returned
    /\ \E i \in DOMAIN allTiers :
          /\ allTiers[i].annualPrice > 0
          /\ allTiers[i].monthlyPrice # MathRound(Rat(allTiers[i].annualPrice, 12))

(* C10: the breakdowns are cumulative: premier's has the grass_roots keys plus  *)
(* seasonal, with the same mowing value; total_landscape's reports mowing,      *)
(* leafCleanup and seasonal with premier's values, plus lights at its           *)
(* pre-markup value and premiumMarkup = round(0.15 * (premier subtotal +        *)
(* lightsCost)).                                                                *)
C10_CumulativeBreakdowns ==
    Returned =>
        LET g == allTiers[1].breakdown
            q == allTiers[2].breakdown
            t == allTiers[3].breakdown
            M == CombinedMultiplier
            lights == RoundTo2(ExactLights(M))
            premierSubtotal ==
                RAdd(RAdd(RoundTo2(ExactMowing(M)), RoundTo2(ExactFullLeaf(M))),
                     RoundTo2(ExactSeasonal(M)))
        IN  /\ DOMAIN g = {"mowing", "leafCleanup"}
            /\ DOMAIN q = DOMAIN g \cup {"seasonal"}
            /\ q.mowing = g.mowing
            /\ DOMAIN t = DOMAIN q \cup {"lights", "premiumMarkup"}
            /\ \A k \in DOMAIN q : t[k] = q[k]
            /\ t.lights = MathRound(lights)
            /\ t.premiumMarkup = MathRound(RMul(RAdd(premierSubtotal, lights), Rat(15, 100)))

\* Tiers returned with lights and a markup line that the rounded totals would not give.
C10_Witness ==
    /\ Returned
    /\ allTiers[3].breakdown.lights > 0
    /\ allTiers[2].breakdown.leafCleanup > allTiers[1].breakdown.leafCleanup
    /\ allTiers[3].breakdown.premiumMarkup
          # allTiers[3].annualPrice - (allTiers[2].annualPrice + allTiers[3].breakdown.lights)

\* calculateAllTiers has run to its return or to a throw of its own.
CalculateAllTiersEnded == ~IsNaN(regionalMultiplier)

(* C4 as stated: when one of MOWING_BASE, LEAF_CLEANUP, SEASONAL_PACKAGE and    *)
(* LIGHTS_INSTALL is not among the loaded (active) rate cards, calculateAllTiers *)
(* fails with a configuration error of its own kind and returns no tiers.       *)
C4_MissingCardIsConfigurationError ==
    (CalculateAllTiersEnded /\ MissingRateCard(rateCardMap)) =>
        /\ error = "ConfigurationError"
        /\ allTiers = <<>>

\* What C5 calls invalid input.
InvalidInput ==
    \/ "conditionScore" \in DOMAIN property /\ property.conditionScore \notin 1 .. 5
    \/ \E f \in {"lawnSqft", "rooflineFt"} \cap DOMAIN property : property[f] < 0
    \/ op = "calculatePricing" /\ tierArg \notin TierTypes \cup {"none"}

(* C5 as stated: invalid input (a present conditionScore outside 1..5, a        *)
(* negative measurement, an unknown tier passed to calculatePricing) is         *)
(* rejected before any pricing computation begins: no tier is priced for it, no *)
(* PricingCalculation is returned, and the call does not succeed.               *)
C5_InvalidInputRejected ==
    InvalidInput =>
        /\ allTiers = <<>>
        /\ pricing = <<>>
        /\ pc # "done"

\* The tiers calculateAllTiers would return were the distance and complexity
\* multipliers the given ones.
TiersUnder(complexity, distance) ==
    TierList(TierCostsWith(property, rateCardMap,
                           RMul(RMul(regionalMultiplier, complexity), distance)))

DistanceMultiplierOfRequest ==
    calculateDistanceMultiplier(calculateDistanceFromServiceCenter(property))

(* C6 as stated: a condition score that is absent or outside 1..5 is priced as  *)
(* score 3, with complexity multiplier 1.10.                                    *)
C6_OutOfRangeScorePricedAsThree ==
    (Returned /\ ("conditionScore" \notin DOMAIN property
                    \/ property.conditionScore \notin 1 .. 5)) =>
        allTiers = TiersUnder(Rat(110, 100), DistanceMultiplierOfRequest)

\* The table of the documentation: 0.90, 1.00, 1.10, 1.25, 1.50.
DocumentedMultiplier(score) ==
    <<Rat(90, 100), Rat(100, 100), Rat(110, 100), Rat(125, 100), Rat(150, 100)>>[score]

(* C7: for every condition score in 1..5, conditionScoreToMultiplier returns    *)
(* the table value: 1 -> 0.90, 2 -> 1.00, 3 -> 1.10, 4 -> 1.25, 5 -> 1.50.       *)
C7_ComplexityTable ==
    (pc = "done" /\ op = "calculatePricing" /\ "conditionScore" \in DOMAIN property
        /\ property.conditionScore \in 1 .. 5) =>
        /\ pricing.complexityMultiplier = DocumentedMultiplier(property.conditionScore)
        /\ allTiers = TiersUnder(DocumentedMultiplier(property.conditionScore),
                                 DistanceMultiplierOfRequest)

\* A PricingCalculation returned for a property of condition score 5.
C7_Witness ==
    /\ pc = "done"
    /\ op = "calculatePricing"
    /\ "conditionScore" \in DOMAIN property
    /\ property.conditionScore = 5
    /\ pricing.complexityMultiplier = Rat(3, 2)

\* The step function on a distance in hundredths of a mile, bands inclusive of
\* their upper boundaries 10, 20 and 25 miles.
StepAt(hundredths) ==
    IF hundredths <= 1000 THEN Rat(100, 100)
    ELSE IF hundredths <= 2000 THEN Rat(105, 100)
    ELSE IF hundredths <= 2500 THEN Rat(110, 100)
    ELSE Rat(120, 100)

\* The step function on the distance rounded to a tenth of a mile: 10.04 rounds
\* to 10.0 and 10.05 to 10.1.
StepAtRounded(hundredths) ==
    IF hundredths <= 1004 THEN Rat(100, 100)
    ELSE IF hundredths <= 2004 THEN Rat(105, 100)
    ELSE IF hundredths <= 2504 THEN Rat(110, 100)
    ELSE Rat(120, 100)

BoundaryDistances == {0, 1000, 1001, 2000, 2001, 2500, 2501}

(* C8 as stated: the distance multiplier applied to a property at 0, 10, 10.01, *)
(* 20, 20.01, 25, 25.01 miles is 1.00, 1.00, 1.05, 1.05, 1.10, 1.10, 1.20.       *)
C8_AppliedStepAtBoundaries ==
    (Returned /\ "latlng" \in DOMAIN property /\ property.latlng \in BoundaryDistances) =>
        allTiers = TiersUnder(complexityMultiplierOf(property), StepAt(property.latlng))

(* C8 amended: calculateDistanceMultiplier is that step function of its         *)
(* argument (1.00, 1.00, 1.05, 1.05, 1.10, 1.10, 1.20 at 0, 10, 10.01, 20,       *)
(* 20.01, 25, 25.01), and the multiplier applied to a property is that function *)
(* of the distance rounded to one decimal place: 1.00 up to 10.04 miles, 1.05   *)
(* from 10.05 to 20.04, 1.10 from 20.05 to 25.04, 1.20 from 25.05.              *)
C8_AppliedStepOfRoundedDistance ==
    /\ \A d \in BoundaryDistances : calculateDistanceMultiplier(Rat(d, 100)) = StepAt(d)
    /\ (Returned /\ "latlng" \in DOMAIN property) =>
          allTiers = TiersUnder(complexityMultiplierOf(property),
                                StepAtRounded(property.latlng))

\* Tiers returned for a property 10.01 miles out, priced with 1.00 and not 1.05.
C8_Witness ==
    /\ Returned
    /\ "latlng" \in DOMAIN property
    /\ property.latlng = 1001
    /\ allTiers = TiersUnder(complexityMultiplierOf(property), Rat(100, 100))
    /\ allTiers # TiersUnder(complexityMultiplierOf(property), Rat(105, 100))

--------------------------------------------------------------------------
(* Edge cases and missing data.                                            *)

\* property.f is zero or absent
ZeroOrAbsent(f) == f \notin DOMAIN property \/ property[f] = 0

(* C11: when lawnSqft or rooflineFt is zero or absent, calculateAllTiers raises *)
(* no error and the affected lines are zero: without lawn the mowing and leaf   *)
(* lines are 0, grass_roots.annualPrice is 0 and premier is the seasonal line   *)
(* alone; without roofline the lights line is 0.                                *)
C11_ZeroOrAbsentContributesZero ==
    (op = "calculateAllTiers" /\ CalculateAllTiersEnded
        /\ (ZeroOrAbsent("lawnSqft") \/ ZeroOrAbsent("rooflineFt"))) =>
        /\ error = "none"
        /\ pc = "done"
        /\ Len(allTiers) = 3
        /\ ZeroOrAbsent("lawnSqft") =>
              /\ \A i \in 1 .. 3 : /\ allTiers[i].breakdown.mowing = 0
                                   /\ allTiers[i].breakdown.leafCleanup = 0
              /\ allTiers[1].annualPrice = 0
              /\ allTiers[2].annualPrice = allTiers[2].breakdown.seasonal
        /\ ZeroOrAbsent("rooflineFt") => allTiers[3].breakdown.lights = 0

\* A property without lawnSqft and with rooflineFt = 0 was priced, premier at
\* the seasonal package alone.
C11_Witness ==
    /\ op = "calculateAllTiers" /\ pc = "done"
    /\ "lawnSqft" \notin DOMAIN property
    /\ "rooflineFt" \in DOMAIN property /\ property.rooflineFt = 0
    /\ allTiers[2].annualPrice > 0
    /\ allTiers[3].annualPrice > allTiers[2].annualPrice

\* The service codes of the upsells returned.
UpsellCodes == {upsells[i].serviceCode : i \in DOMAIN upsells}

Called(fn) == call # <<>> /\ call.fn = fn

(* C13: getRegionalMultiplier returns the stored multiplier when an active      *)
(* record exists for the ZIP code (and the lookup succeeds), and the default    *)
(* 1.0 when the ZIP code is absent, has no record or only an inactive one; a    *)
(* failing lookup gives the default too, it never raises.                       *)
C13_RegionalMultiplierLookup ==
    Called("getRegionalMultiplier") =>
        LET z == call.args[1]
            queryError == call.args[2]
            rows == {r \in DOMAIN regional_adjustments :
                        /\ "zipCode" \in DOMAIN z
                        /\ r = z.zipCode
                        /\ regional_adjustments[r].active}
        IN  /\ (rows # {} /\ ~queryError) =>
                  \A r \in rows : /\ result[2] > 0
                                  /\ result[1] * 100 = regional_adjustments[r].multiplier * result[2]
            /\ (rows = {} \/ queryError) => result = <<1, 1>>

\* The ZIP code 45247 was looked up while its record (1.05) was inactive, and
\* the default came back.
C13_Witness ==
    /\ Called("getRegionalMultiplier")
    /\ call.args = <<[zipCode |-> "45247"], FALSE>>
    /\ ~regional_adjustments["45247"].active
    /\ result = <<1, 1>>

--------------------------------------------------------------------------
(* The upsell rules.                                                       *)

\* generateUpsells has returned, having loaded every rate card its rules read.
UpsellsGenerated ==
    /\ op = "generateUpsells"
    /\ pc = "done"
    /\ UpsellServiceCodes \subseteq DOMAIN rateCardMap

\* property.f is present and greater than n
Over(f, n) == f \in DOMAIN property /\ property[f] > n

\* property.bedCondition is not "good" (an absent condition is not "good")
BedNotGood == "bedCondition" \notin DOMAIN property \/ property.bedCondition # "good"

\* The upsell of service code c is emitted, once.
Emitted(c) ==
    /\ c \in UpsellCodes
    /\ Cardinality({i \in DOMAIN upsells : upsells[i].serviceCode = c}) = 1

\* The triggers on which C14 and its amendment agree.
C14_CommonTriggers ==
    /\ Emitted("EDGING") <=> (Over("bedSqft", 0) /\ BedNotGood)
    /\ Emitted("BUSH_TRIMMING") <=> Over("bushCount", 5)
    /\ Emitted("MULCH_INSTALL") <=> (Over("bedSqft", 200) /\ BedNotGood)
    /\ Emitted("SEASONAL_PACKAGE") <=> tierArg = "grass_roots"
    /\ \A c \in UpsellCodes : Emitted(c)

(* C14 as stated: with every referenced rate card present, each upsell is      *)
(* emitted exactly when its trigger holds, BED_MAINTENANCE iff the tier is     *)
(* premier or total_landscape and bedSqft is present, LIGHTS_INSTALL iff the   *)
(* tier is not total_landscape and rooflineFt is present.                      *)
C14_TriggersWithPresentFields ==
    UpsellsGenerated =>
        /\ C14_CommonTriggers
        /\ Emitted("BED_MAINTENANCE") <=>
              (tierArg \in {"premier", "total_landscape"} /\ "bedSqft" \in DOMAIN property)
        /\ Emitted("LIGHTS_INSTALL") <=>
              (tierArg # "total_landscape" /\ "rooflineFt" \in DOMAIN property)

(* C14 amended: the same, with BED_MAINTENANCE iff the tier is premier or      *)
(* total_landscape and bedSqft is present and not 0, LIGHTS_INSTALL iff the    *)
(* tier is not total_landscape and rooflineFt is present and not 0.            *)
C14_TriggersWithNonzeroFields ==
    UpsellsGenerated =>
        /\ C14_CommonTriggers
        /\ Emitted("BED_MAINTENANCE") <=>
              /\ tierArg \in {"premier", "total_landscape"}
              /\ "bedSqft" \in DOMAIN property
              /\ property.bedSqft # 0
        /\ Emitted("LIGHTS_INSTALL") <=>
              /\ tierArg # "total_landscape"
              /\ "rooflineFt" \in DOMAIN property
              /\ property.rooflineFt # 0

\* A premier property with bedSqft = 0, 8 bushes and 150 ft of roofline: bush
\* trimming and lights are offered, no bed maintenance.
C14_Witness ==
    /\ UpsellsGenerated
    /\ tierArg = "premier"
    /\ "bedSqft" \in DOMAIN property /\ property.bedSqft = 0
    /\ Over("bushCount", 5)
    /\ Over("rooflineFt", 0)
    /\ UpsellCodes = {"BUSH_TRIMMING", "LIGHTS_INSTALL"}

\* The upsells returned that carry service code c.
UpsellsOf(c) == {upsells[i] : i \in {j \in DOMAIN upsells : upsells[j].serviceCode = c}}

\* Math.round(num / den) for integers num >= 0, den > 0
RoundOf(num, den) == (2 * num + den) \div (2 * den)

\* generateUpsells has returned for a grass_roots quote of a property under
\* heavy tree cover, the LEAF_CLEANUP card loaded.
LeafUpgradeCase ==
    /\ op = "generateUpsells"
    /\ pc = "done"
    /\ "LEAF_CLEANUP" \in DOMAIN rateCardMap
    /\ tierArg = "grass_roots"
    /\ "treeCoverage" \in DOMAIN property
    /\ property.treeCoverage = "heavy"

\* round((lawnSqft / 1000) * leafBaseRate * 1.5), the rate in cents
LeafUpgradePrice(lawnSqft) ==
    RoundOf(lawnSqft * rateCardMap["LEAF_CLEANUP"].base_rate * 15, 1000 * 100 * 10)

(* C15 as stated: whenever the tier is grass_roots and treeCoverage is heavy    *)
(* (LEAF_CLEANUP card present), a LEAF_CLEANUP_UPGRADE upsell is emitted with   *)
(* price round((lawnSqft/1000) * leafBaseRate * 1.5) and recommended = true,    *)
(* for every lawnSqft, zero or absent (priced as 0) included.                   *)
C15_LeafUpgradeForEveryLawn ==
    LeafUpgradeCase =>
        UpsellsOf("LEAF_CLEANUP_UPGRADE") =
            {Upsell("LEAF_CLEANUP_UPGRADE",
                    LeafUpgradePrice(IF "lawnSqft" \in DOMAIN property
                                     THEN property.lawnSqft ELSE 0),
                    TRUE)}

(* C15 amended: in that case the upgrade is emitted, so priced and recommended, *)
(* when lawnSqft is present and not 0, and no upgrade is emitted when lawnSqft  *)
(* is zero or absent.                                                           *)
C15_LeafUpgradeForNonzeroLawn ==
    LeafUpgradeCase =>
        UpsellsOf("LEAF_CLEANUP_UPGRADE") =
            IF "lawnSqft" \in DOMAIN property /\ property.lawnSqft # 0
            THEN {Upsell("LEAF_CLEANUP_UPGRADE", LeafUpgradePrice(property.lawnSqft), TRUE)}
            ELSE {}

\* The upgrade was offered for a lawn of 750 sqft at the changed rate of 6.10:
\* 0.75 * 6.10 * 1.5 = 6.8625, priced 7.
C15_Witness ==
    /\ LeafUpgradeCase
    /\ "lawnSqft" \in DOMAIN property /\ property.lawnSqft = 750
    /\ rateCardMap["LEAF_CLEANUP"].base_rate = 610
    /\ Upsell("LEAF_CLEANUP_UPGRADE", 7, TRUE) \in UpsellsOf("LEAF_CLEANUP_UPGRADE")

\* property.f is present with the value v
Has(f, v) == f \in DOMAIN property /\ property[f] = v

\* The recommended flag the rule table gives the upsell of service code c.
RuleTableFlag(c) ==
    CASE c = "EDGING"               -> TRUE
      [] c = "BUSH_TRIMMING"        -> Has("bedCondition", "overgrown")
      [] c = "MULCH_INSTALL"        -> Has("bedCondition", "overgrown")
      [] c = "BED_MAINTENANCE"      -> Over("bedSqft", 500)
      [] c = "LEAF_CLEANUP_UPGRADE" -> TRUE
      [] c = "SEASONAL_PACKAGE"     -> Has("grassHeight", "overgrown")
      [] c = "LIGHTS_INSTALL"       -> FALSE

(* C16: the recommended flag of every upsell generateUpsells emits follows the  *)
(* rule table: EDGING and LEAF_CLEANUP_UPGRADE true, BUSH_TRIMMING and          *)
(* MULCH_INSTALL true iff bedCondition = overgrown, BED_MAINTENANCE true iff    *)
(* bedSqft > 500, SEASONAL_PACKAGE true iff grassHeight = overgrown,            *)
(* LIGHTS_INSTALL false.                                                        *)
C16_RecommendedFlags ==
    (op = "generateUpsells" /\ pc = "done") =>
        \A i \in DOMAIN upsells :
            upsells[i].recommended = RuleTableFlag(upsells[i].serviceCode)

\* The documented scenario (600 sqft of overgrown beds, 8 bushes, premier):
\* edging, bush trimming, mulch and bed maintenance recommended, lights not.
C16_Witness ==
    /\ op = "generateUpsells" /\ pc = "done"
    /\ tierArg = "premier"
    /\ Has("bedSqft", 600) /\ Has("bedCondition", "overgrown") /\ Has("bushCount", 8)
    /\ {upsells[i].serviceCode : i \in {j \in DOMAIN upsells : upsells[j].recommended}}
          = {"EDGING", "BUSH_TRIMMING", "MULCH_INSTALL", "BED_MAINTENANCE"}
    /\ "LIGHTS_INSTALL" \in UpsellCodes

\* The base_rate, in cents, of the loaded rate card an upsell code is priced from.
RateOf(c) == rateCardMap[c].base_rate

\* p is round(sqrt(bedSqft) * 4 * rate), the rate in cents: 4 * rate / 100 is
\* rate / 25, and p - 1/2 <= sqrt(b) * rate / 25 < p + 1/2 squared and cleared
\* of fractions.
IsEdgingPrice(p, bedSqft, rate) ==
    /\ p >= 0
    /\ 4 * bedSqft * rate * rate < (2 * p + 1) * (2 * p + 1) * 625
    /\ p > 0 => (2 * p - 1) * (2 * p - 1) * 625 <= 4 * bedSqft * rate * rate

\* Twice mulchYardage(bedSqft): ceil((bedSqft * 3) / 324 * 2)
HalfYards(bedSqft) == -((-(bedSqft * 6)) \div 324)

\* The price the table formula gives the upsell u.
HasTablePrice(u) ==
    CASE u.serviceCode = "EDGING" ->
           IsEdgingPrice(u.price, property.bedSqft, RateOf("EDGING"))
      [] u.serviceCode = "BUSH_TRIMMING" ->
           u.price = RoundOf(property.bushCount * RateOf("BUSH_TRIMMING"), 100)
      [] u.serviceCode = "MULCH_INSTALL" ->
           u.price = RoundOf(HalfYards(property.bedSqft) * RateOf("MULCH_INSTALL"), 200)
      [] u.serviceCode = "BED_MAINTENANCE" ->
           u.price = RoundOf(property.bedSqft * RateOf("BED_MAINTENANCE") * 12, 100 * 100)
      [] u.serviceCode = "SEASONAL_PACKAGE" ->
           u.price = RoundOf(RateOf("SEASONAL_PACKAGE"), 100)
      [] u.serviceCode = "LIGHTS_INSTALL" ->
           u.price = RoundOf(property.rooflineFt * RateOf("LIGHTS_INSTALL"), 100)
      [] OTHER -> TRUE

(* C17: upsell prices are whole currency units computed by the table formulas: *)
(* BUSH_TRIMMING round(bushCount * rate), MULCH_INSTALL round(mulchYardage(     *)
(* bedSqft) * rate), BED_MAINTENANCE round((bedSqft/100) * rate * 12),          *)
(* SEASONAL_PACKAGE round(flat rate), LIGHTS_INSTALL round(rooflineFt * rate),  *)
(* EDGING round(sqrt(bedSqft) * 4 * rate).                                      *)
C17_UpsellPrices ==
    (op = "generateUpsells" /\ pc = "done") =>
        \A i \in DOMAIN upsells :
            /\ upsells[i].price \in Int
            /\ HasTablePrice(upsells[i])

\* At the changed rates the documented scenario (600 sqft of beds, 8 bushes,
\* premier) is priced: edging sqrt(600) * 4 * 2.75 = 269.4 -> 269, bush trimming
\* 8 * 15.50 = 124, mulch 6 yards * 95.25 = 571.5 -> 572, bed maintenance
\* 6 * 25.10 * 12 = 1807.2 -> 1807, lights 150 * 3.15 = 472.5 -> 473.
C17_Witness ==
    /\ op = "generateUpsells" /\ pc = "done"
    /\ tierArg = "premier"
    /\ rate_cards = RepricedRateCards
    /\ Has("bedSqft", 600) /\ Has("bushCount", 8) /\ Has("rooflineFt", 150)
    /\ {<<upsells[i].serviceCode, upsells[i].price>> : i \in DOMAIN upsells}
          = {<<"EDGING", 269>>, <<"BUSH_TRIMMING", 124>>, <<"MULCH_INSTALL", 572>>,
             <<"BED_MAINTENANCE", 1807>>, <<"LIGHTS_INSTALL", 473>>}

--------------------------------------------------------------------------
(* The estimating helpers.                                                 *)

\* The depth a call of calculateMulchYardage computes with: its second argument,
\* 3 inches when there is none.
DepthOfCall == IF Len(call.args) = 1 THEN 3 ELSE call.args[2]

SqftPerHour(st) ==
    CASE st = "mowing"      -> 5000
      [] st = "cleanup"     -> 2000
      [] st = "mulch"       -> 1000
      [] st = "softscape"   -> 500
      [] st = "maintenance" -> 3000

(* C19 as stated: estimateLaborHours returns (lawnSqft / sqftPerHour(service    *)
(* type)) * (conditionScore / 3) rounded up to the nearest half hour, for every *)
(* lawnSqft >= 0; for lawnSqft = 0 the result is 0.                             *)
C19_LaborHoursFormula ==
    Called("estimateLaborHours") =>
        LET st == call.args[1]
            lawnSqft == call.args[2]
            score == call.args[3]
            exactNum == lawnSqft * score            \* exact hours = exactNum / exactDen
            exactDen == SqftPerHour(st) * 3
        IN  /\ result[2] \in {1, 2}
            /\ result[1] * exactDen >= exactNum * result[2]
            /\ 2 * result[1] * exactDen < (2 * exactNum + exactDen) * result[2]
            /\ lawnSqft = 0 => result = <<0, 1>>

--------------------------------------------------------------------------
(* The materials list.                                                     *)

\* generateMaterialsList has returned.
MaterialsGenerated == op = "generateMaterialsList" /\ pc = "done"

\* The quantities of the leaf-bag lines of the list.
LeafBagQuantities ==
    {materials[i].quantity :
        i \in {j \in DOMAIN materials : materials[j].item = "Heavy-duty Leaf Bags"}}

\* ceil(lawnSqft / 1000) * 10
LeafBagsFor(lawnSqft) == (-((-lawnSqft) \div 1000)) * 10

\* The list is that of the service type, the selected upsell codes and the
\* property's measurements alone, whatever the tier or the other fields.
MaterialsFromMeasurementsOnly ==
    materials = generateMaterialsList(Only(property, {"lawnSqft", "bedSqft", "rooflineFt"}),
                                      serviceType, selectedUpsells)

(* C20 as stated: for the cleanup service the materials list has leaf bags in   *)
(* the quantity ceil(lawnSqft / 1000) * 10 for every lawnSqft, 0 bags for a     *)
(* zero or absent lawnSqft; the list depends only on service type, selected     *)
(* upsell codes and measurements.                                               *)
C20_LeafBagsOfLawn ==
    MaterialsGenerated =>
        /\ MaterialsFromMeasurementsOnly
        /\ serviceType = "cleanup" =>
              LeafBagQuantities =
                  {<<LeafBagsFor(IF "lawnSqft" \in DOMAIN property
                                 THEN property.lawnSqft ELSE 0), 1>>}

(* C20 amended: the same, with a zero or absent lawnSqft taken as 5000 sqft,    *)
(* which gives 50 bags.                                                         *)
C20_LeafBagsOfLawnOrDefault ==
    MaterialsGenerated =>
        /\ MaterialsFromMeasurementsOnly
        /\ serviceType = "cleanup" =>
              LeafBagQuantities =
                  {<<LeafBagsFor(IF "lawnSqft" \in DOMAIN property /\ property.lawnSqft # 0
                                 THEN property.lawnSqft ELSE 5000), 1>>}
        /\ serviceType # "cleanup" => LeafBagQuantities = {}

\* A cleanup of a property without lawnSqft was given 50 leaf bags.
C20_Witness ==
    /\ MaterialsGenerated
    /\ serviceType = "cleanup"
    /\ "lawnSqft" \notin DOMAIN property
    /\ LeafBagQuantities = {<<50, 1>>}

--------------------------------------------------------------------------
(* The job description, the stored quote and its way to Jobber.            *)

\* generateJobDescription has returned within POST /quote.
JobDescribed == op = "postQuote" /\ jobDescription # <<>>

\* The tier of the request among the tiers calculateAllTiers returned.
TierOfQuote == allTiers[CHOOSE i \in DOMAIN allTiers : allTiers[i].tier = tierArg]

\* The full leaf cleanup as the tiers charge it (the premier tier's line item).
FullLeafCharge ==
    allTiers[CHOOSE i \in DOMAIN allTiers : allTiers[i].tier = "premier"].breakdown.leafCleanup

\* The line item of a tier's breakdown that a line of the description names.
ChargeOfLine(line) ==
    CASE line = "30 weekly mowing visits"                 -> "mowing"
      [] line = "Basic fall leaf cleanup (1 visit)"       -> "leafCleanup"
      [] line = "Full fall leaf cleanup (2 visits)"       -> "leafCleanup"
      [] line = "Seasonal care package"                   -> "seasonal"
      [] line = "Holiday lights installation and removal" -> "lights"

Lines(seq) == {seq[i] : i \in DOMAIN seq}

\* C21: the services a job description lists are exactly the services the
\* quoted tier's breakdown charges for (the premium markup of total_landscape
\* is a surcharge, not a service): the basic leaf cleanup is listed where the
\* tier charges a quarter of the full cleanup, the full cleanup where it
\* charges all of it; and the condition note is there iff conditionScore >= 4.
C21_DescriptionMirrorsTier ==
    JobDescribed =>
        LET t     == TierOfQuote
            lines == Lines(jobDescription.services)
        IN  /\ {ChargeOfLine(l) : l \in lines} = DOMAIN t.breakdown \ {"premiumMarkup"}
            /\ Len(jobDescription.services) = Cardinality(DOMAIN t.breakdown \ {"premiumMarkup"})
            /\ "Basic fall leaf cleanup (1 visit)" \in lines =>
                  /\ Abs(4 * t.breakdown.leafCleanup - FullLeafCharge) <= 2
                  /\ t.breakdown.leafCleanup # FullLeafCharge
            /\ "Full fall leaf cleanup (2 visits)" \in lines =>
                  t.breakdown.leafCleanup = FullLeafCharge
            /\ jobDescription.note <=>
                  ("conditionScore" \in DOMAIN property /\ property.conditionScore >= 4)

\* A total_landscape quote of a property in condition 4: four services and
\* the note.
C21_Witness ==
    /\ JobDescribed
    /\ tierArg = "total_landscape"
    /\ "conditionScore" \in DOMAIN property /\ property.conditionScore = 4
    /\ Len(jobDescription.services) = 4
    /\ jobDescription.note
    /\ "lights" \in DOMAIN TierOfQuote.breakdown

\* calculateAllTiers has returned to a caller that kept an earlier answer for
\* the same property under the same contents of rate_cards and
\* regional_adjustments.
AskedAgain ==
    /\ pc = "done"
    /\ op = "calculateAllTiers"
    /\ call # <<>>
    /\ call.fn = "calculateAllTiers"
    /\ call.args = <<property, rate_cards, regional_adjustments>>

QuotePriced == op = "postQuote" /\ pricing # <<>>

\* generateUpsells has priced the upsells of the quote from the rate cards it
\* loaded (rateCardMap is then its map).
UpsellsPriced ==
    /\ QuotePriced
    /\ pc \in {"generateMaterialsList", "generateJobDescription", "insertQuote",
               "done", "failed"}
    /\ rateCardMap # <<>>

\* The reported regionalMultiplier is the one the prices were computed with.
ReportedMultiplierIsUsed == QuotePriced => pricing.regionalMultiplier = regionalMultiplier

\* The tier prices are those of the rate cards the upsells were priced from.
UpsellsFromTierSnapshot ==
    UpsellsPriced =>
        IF MissingRateCard(loadRateCards(rateCardMap))
        THEN FALSE
        ELSE allTiers = TierList(TierCosts(property, loadRateCards(rateCardMap),
                                           regionalMultiplier))

\* C23: within one quote calculation the regionalMultiplier reported in the
\* PricingCalculation is the value finalAnnualPrice was computed with, and the
\* upsells are priced from the catalog contents the tiers were priced from,
\* under any interleaving with storage updates.
C23_OneSnapshotPerQuote == ReportedMultiplierIsUsed /\ UpsellsFromTierSnapshot

\* The tenth of a mile nearest to a distance given in hundredths (a half goes up).
NearestTenth(hundredths) ==
    CHOOSE k \in 0 .. (hundredths \div 10 + 1) :
        10 * k - 5 <= hundredths /\ hundredths < 10 * k + 5

\* C24: the distance multiplier applied to a property is
\* calculateDistanceMultiplier of the distance rounded to the nearest 0.1 mile,
\* not of the unrounded distance.
C24_MultiplierOfRoundedDistance ==
    (Returned /\ "latlng" \in DOMAIN property) =>
        allTiers = TiersUnder(complexityMultiplierOf(property),
                              calculateDistanceMultiplier(
                                  Rat(NearestTenth(property.latlng), 10)))

\* Tiers returned for a property 10.04 miles out: the rounded distance is in
\* the first band and the unrounded one in the second.
C24_Witness ==
    /\ Returned
    /\ "latlng" \in DOMAIN property
    /\ property.latlng = 1004
    /\ calculateDistanceMultiplier(Rat(NearestTenth(property.latlng), 10)) = Whole(1)
    /\ calculateDistanceMultiplier(Rat(property.latlng, 100)) = Rat(105, 100)

\* The order in which generateUpsells evaluates its rules.
UpsellOrder ==
    <<"EDGING", "BUSH_TRIMMING", "MULCH_INSTALL", "BED_MAINTENANCE",
      "LEAF_CLEANUP_UPGRADE", "SEASONAL_PACKAGE", "LIGHTS_INSTALL">>

RankOf(c) == CHOOSE i \in DOMAIN UpsellOrder : UpsellOrder[i] = c

\* The rate card a rule reads.
CardOf(c) == IF c = "LEAF_CLEANUP_UPGRADE" THEN "LEAF_CLEANUP" ELSE c

\* A rule's own trigger: a condition on the property and the tier alone.
OwnTrigger(c) ==
    CASE c = "EDGING"               -> Over("bedSqft", 0) /\ BedNotGood
      [] c = "BUSH_TRIMMING"        -> Over("bushCount", 5)
      [] c = "MULCH_INSTALL"        -> Over("bedSqft", 200) /\ BedNotGood
      [] c = "BED_MAINTENANCE"      -> /\ tierArg \in {"premier", "total_landscape"}
                                       /\ "bedSqft" \in DOMAIN property
                                       /\ property.bedSqft # 0
      [] c = "LEAF_CLEANUP_UPGRADE" -> /\ tierArg = "grass_roots"
                                       /\ Has("treeCoverage", "heavy")
                                       /\ "lawnSqft" \in DOMAIN property
                                       /\ property.lawnSqft # 0
      [] c = "SEASONAL_PACKAGE"     -> tierArg = "grass_roots"
      [] c = "LIGHTS_INSTALL"       -> /\ tierArg # "total_landscape"
                                       /\ "rooflineFt" \in DOMAIN property
                                       /\ property.rooflineFt # 0

\* The upsell scenario of the documentation.
UpsellScenario ==
    /\ Has("bedSqft", 600)
    /\ Has("bedCondition", "overgrown")
    /\ Has("bushCount", 8)
    /\ tierArg = "premier"

\* C25: whatever the property, the tier and the rate cards loaded, a rule
\* fires exactly when its own trigger holds and its own rate card is there,
\* whichever other rules fire; the list holds each service code at most once,
\* in the order EDGING, BUSH_TRIMMING, MULCH_INSTALL, BED_MAINTENANCE,
\* LEAF_CLEANUP_UPGRADE, SEASONAL_PACKAGE, LIGHTS_INSTALL; and the scenario
\* bedSqft 600, overgrown beds, 8 bushes, premier yields the first four.
C25_RulesIndependentAndOrdered ==
    (op = "generateUpsells" /\ pc = "done") =>
        /\ \A i, j \in DOMAIN upsells :
              i < j => RankOf(upsells[i].serviceCode) < RankOf(upsells[j].serviceCode)
        /\ UpsellCodes \subseteq Lines(UpsellOrder)
        /\ \A c \in Lines(UpsellOrder) :
              c \in UpsellCodes <=> (OwnTrigger(c) /\ CardOf(c) \in DOMAIN rateCardMap)
        /\ (UpsellScenario /\ UpsellsGenerated) =>
              /\ Len(upsells) >= 4
              /\ \A i \in 1 .. 4 : upsells[i].serviceCode = UpsellOrder[i]

\* The scenario with every rate card there: edging, bush trimming, mulch
\* and bed maintenance, and the lights after them.
C25_Witness ==
    /\ UpsellScenario
    /\ UpsellsGenerated
    /\ Len(upsells) = 5
    /\ upsells[1].serviceCode = "EDGING"
    /\ upsells[4].serviceCode = "BED_MAINTENANCE"
    /\ upsells[5].serviceCode = "LIGHTS_INSTALL"

\* createAndSendQuote has returned or re-thrown.
CreateAndSendQuoteEnded == op = "createAndSendQuote" /\ pc \in {"done", "failed"}

\* C26: when createAndSendQuote ends, the quote record has status 'sent' or a
\* jobber_sent_at only if Jobber's sendQuote succeeded; after a failed
\* sendQuote the status is still 'draft'.
C26_SentOnlyAfterSendQuote ==
    CreateAndSendQuoteEnded =>
        ((quote.status = "sent" \/ quote.jobber_sent_at) => jobber.sent)

\* The fields of a property the combined multiplier is computed from.
MultiplierFields == {"conditionScore", "zipCode", "latlng"}

\* The property of the request without them.
WithoutMultiplierFields == Only(property, DOMAIN property \ MultiplierFields)

\* C27: the upsells of a quote are those of the property without its
\* conditionScore, zipCode and coordinates, so properties that differ in these
\* alone get the same codes and prices; the SEASONAL_PACKAGE upsell costs the
\* rate card's amount and the LIGHTS_INSTALL upsell rooflineFt times the rate,
\* neither scaled by the multiplier of the tiers.
C27_UpsellsIgnoreMultiplier ==
    UpsellsPriced =>
        /\ upsells = generateUpsells(WithoutMultiplierFields, tierArg, rateCardMap)
        /\ \A i \in DOMAIN upsells :
              /\ upsells[i].serviceCode = "SEASONAL_PACKAGE" =>
                    upsells[i].price = RoundOf(RateOf("SEASONAL_PACKAGE"), 100)
              /\ upsells[i].serviceCode = "LIGHTS_INSTALL" =>
                    upsells[i].price =
                        RoundOf(property.rooflineFt * RateOf("LIGHTS_INSTALL"), 100)

\* A grass_roots quote of a property in condition 5 in the +5% ZIP code, 15
\* miles out: the tiers charge 1075 for the seasonal package (650 scaled by
\* the combined multiplier) and the upsell costs 650.
C27_Witness ==
    /\ UpsellsPriced
    /\ tierArg = "grass_roots"
    /\ Has("conditionScore", 5) /\ Has("zipCode", "45247") /\ Has("latlng", 1500)
    /\ \E i \in DOMAIN upsells :
          /\ upsells[i].serviceCode = "SEASONAL_PACKAGE"
          /\ upsells[i].price = 650
    /\ \E i \in DOMAIN allTiers :
          /\ allTiers[i].tier = "premier"
          /\ allTiers[i].breakdown.seasonal > 650
    /\ \E i \in DOMAIN upsells : upsells[i].serviceCode = "LIGHTS_INSTALL"

\* POST /quote has stored its quote.
QuoteStored == op = "postQuote" /\ quote # <<>>

\* The service codes of the stored upsells that are recommended, and of those
\* the stored job description names.
StoredRecommended ==
    {quote.recommended_upsells[i].serviceCode :
        i \in {j \in DOMAIN quote.recommended_upsells :
                  quote.recommended_upsells[j].recommended}}

NamedInDescription == Lines(quote.job_description.additional)

(* C28 as stated: every upsell stored in recommended_upsells has recommended *)
(* = true, and the stored upsells are those the job description names.       *)
C28_StoredUpsellsAllRecommended ==
    QuoteStored =>
        /\ \A i \in DOMAIN quote.recommended_upsells :
              quote.recommended_upsells[i].recommended
        /\ {quote.recommended_upsells[i].serviceCode :
               i \in DOMAIN quote.recommended_upsells} = NamedInDescription

(* C28 amended: recommended_upsells holds the whole list generateUpsells      *)
(* returned, and the job description names exactly the stored upsells that    *)
(* have recommended = true.                                                   *)
C28_DescriptionNamesStoredRecommended ==
    QuoteStored =>
        /\ quote.recommended_upsells = upsells
        /\ NamedInDescription = StoredRecommended
        /\ Len(quote.job_description.additional) = Cardinality(StoredRecommended)

\* A stored quote with a recommended upsell the description names and the
\* lights, stored with recommended = false and not named.
C28_Witness ==
    /\ QuoteStored
    /\ "BUSH_TRIMMING" \in NamedInDescription
    /\ \E i \in DOMAIN quote.recommended_upsells :
          /\ quote.recommended_upsells[i].serviceCode = "LIGHTS_INSTALL"
          /\ ~quote.recommended_upsells[i].recommended
    /\ "LIGHTS_INSTALL" \notin NamedInDescription

\* rate_cards with every row active.
CompleteCatalog == [c \in DOMAIN rate_cards |-> [rate_cards[c] EXCEPT !.active = TRUE]]

\* The upsells of the request under the complete catalog.
UpsellsOfCompleteCatalog == generateUpsells(property, tierArg, CompleteCatalog)

\* C29: generateUpsells ends without an error whatever the catalog; without
\* rate-card data it returns the empty list; with a rate card missing it
\* returns the list of the complete catalog, same prices and flags, less the
\* upsell of the rule that reads the missing card.
C29_CatalogProblemsSkipRules ==
    (op = "generateUpsells" /\ pc \in {"done", "failed"}) =>
        /\ pc = "done"
        /\ error = "none"
        /\ IF rateCardMap = <<>>
           THEN upsells = <<>>
           ELSE upsells = SelectSeq(UpsellsOfCompleteCatalog,
                                    LAMBDA u : rate_cards[CardOf(u.serviceCode)].active)

\* The documented scenario without the EDGING card: no edging, the other
\* four upsells as with the card.
C29_Witness ==
    /\ op = "generateUpsells"
    /\ pc = "done"
    /\ UpsellScenario
    /\ rateCardMap # <<>>
    /\ "EDGING" \notin DOMAIN rateCardMap
    /\ Len(UpsellsOfCompleteCatalog) = 5
    /\ UpsellCodes = {"BUSH_TRIMMING", "MULCH_INSTALL", "BED_MAINTENANCE", "LIGHTS_INSTALL"}

\* The tier calculatePricing is to answer with: the one asked for, premier
\* when none was.
TierAskedFor == IF tierArg = "none" THEN "premier" ELSE tierArg

\* C30: calculatePricing answers with basePrice and finalAnnualPrice equal to
\* the annualPrice, and finalMonthlyPrice equal to the monthlyPrice, of the
\* tier asked for among the tiers calculateAllTiers returned, of premier when
\* no tier was given; a tier that is none of the three fails with the 400
\* error 'Invalid tier specified', and nothing else does.
C30_PricingOfSelectedTier ==
    /\ (op = "calculatePricing" /\ pc = "done") =>
          /\ error = "none"
          /\ \E i \in DOMAIN allTiers :
                /\ allTiers[i].tier = TierAskedFor
                /\ pricing.basePrice = allTiers[i].annualPrice
                /\ pricing.finalAnnualPrice = allTiers[i].annualPrice
                /\ pricing.finalMonthlyPrice = allTiers[i].monthlyPrice
    /\ (op = "calculatePricing" /\ allTiers # <<>> /\ TierAskedFor \notin TierTypes) =>
          /\ pc = "failed"
          /\ error = "AppError400"
          /\ pricing = <<>>
    /\ (op = "calculatePricing" /\ error = "AppError400") => TierAskedFor \notin TierTypes

\* calculatePricing has answered for total_landscape with that tier's prices,
\* which are not premier's.
C30_Witness ==
    /\ op = "calculatePricing"
    /\ pc = "done"
    /\ tierArg = "total_landscape"
    /\ pricing.finalAnnualPrice = allTiers[3].annualPrice
    /\ pricing.finalMonthlyPrice = allTiers[3].monthlyPrice
    /\ allTiers[3].annualPrice > allTiers[2].annualPrice

============================================================================
